---- MODULE Spec2Model ----
(***************************************************************************)
(* Model of the Confluence storage sync engine of mcp-confluence-demo:     *)
(* StorageSyncManager (src/src/storage-sync-manager.ts, second copy of the *)
(* class, lines 655-1428) and the part of ConfluenceClient it drives       *)
(* (src/src/confluence-client.ts), with the file helpers of                *)
(* src/src/file-utils.ts and the error classes the calls throw.            *)
(*                                                                         *)
(* Markup is a sequence of tokens.  A token is a whole tag ("<td>",        *)
(* "</tr>", "<table a>" for a tag with attributes), one text character     *)
(* ("x"), or one whitespace character (NL, SP).  Every regular expression  *)
(* of the formatter starts and ends on a tag boundary, so matching on      *)
(* tokens is matching on characters.                                       *)
(***************************************************************************)
EXTENDS Integers, Sequences, FiniteSets, TLC

NL == "\n"
SP == " "
WS == {NL, SP}

\* ------------------------------------------------------------------------
\* Token classes used by the regular expressions.
\* ------------------------------------------------------------------------
TableOpen == {"<table>", "<table a>"}          \* <table[^>]*>
TdOpen    == {"<td>", "<td a>"}                \* <td(\s|>)
ThOpen    == {"<th>", "<th a>"}                \* <th(\s|>)
BlockOpen == {"<p>", "<h1>", "<div a>"}        \* <(p|h[1-6]|div [^>]+)>
BlockClose == {"</p>", "</h1>", "</div>"}      \* </(p|h[1-6]|div)>
CellClose == {"</td>", "</th>"}                \* </(td|th)>
ListOpen  == {"<li>", "<ul>", "<li a>", "<ul a>"} \* <((?:li|ul)(?: [^>]+)?)>
ListClose == {"</li>", "</ul>"}                \* </(li|ul)>
CloseTags == {"</table>", "</tbody>", "</thead>", "</tfoot>", "</tr>",
              "</td>", "</th>", "</colgroup>", "</p>", "</h1>", "</div>",
              "</li>", "</ul>", "</b>"}        \* anything starting with </
OpenTags  == TableOpen \cup TdOpen \cup ThOpen \cup BlockOpen \cup ListOpen
             \cup {"<tbody>", "<thead>", "<tfoot>", "<tr>", "<colgroup>",
                   "<div>", "<b>", "<br />"}
Tags      == OpenTags \cup CloseTags           \* anything ending with >
TextChars == {"x", "y"}
Tokens    == Tags \cup TextChars \cup WS

Spaces(n) == [i \in 1..n |-> SP]

\* ------------------------------------------------------------------------
\* String.prototype.replace with a global regular expression, on tokens:
\* the leftmost match is replaced and the search resumes after the last
\* token that match touched, so matches never overlap.
\* ------------------------------------------------------------------------

\* the least member of a non-empty set of positions
First(C) == CHOOSE i \in C : \A j \in C : i <= j

\* the first position from k on that holds no whitespace (Len(s) + 1 when
\* there is none): where a greedy \s* started at k ends
AfterWS(s, k) ==
  First({j \in k..(Len(s) + 1) : j = Len(s) + 1 \/ s[j] \notin WS})

\* /A/g -> A ins
RECURSIVE InsAfter(_, _, _)
InsAfter(s, A, ins) ==
  LET C == {i \in 1..Len(s) : s[i] \in A} IN
  IF C = {} THEN s
  ELSE LET i == First(C)
       IN SubSeq(s, 1, i) \o ins \o InsAfter(SubSeq(s, i + 1, Len(s)), A, ins)

\* /B/g -> ins B
RECURSIVE InsBefore(_, _, _)
InsBefore(s, B, ins) ==
  LET C == {i \in 1..Len(s) : s[i] \in B} IN
  IF C = {} THEN s
  ELSE LET i == First(C)
       IN SubSeq(s, 1, i - 1) \o ins \o <<s[i]>>
          \o InsBefore(SubSeq(s, i + 1, Len(s)), B, ins)

\* /AB/g -> A ins B   (A may be only the closing '>' of the token before B,
\* B may be only the opening "</" of the token after A: either way both
\* tokens are consumed by the match)
RECURSIVE InsBetween(_, _, _, _)
InsBetween(s, A, B, ins) ==
  LET C == {i \in 1..(Len(s) - 1) : s[i] \in A /\ s[i + 1] \in B} IN
  IF C = {} THEN s
  ELSE LET i == First(C)
       IN SubSeq(s, 1, i) \o ins \o <<s[i + 1]>>
          \o InsBetween(SubSeq(s, i + 2, Len(s)), A, B, ins)

\* /A\nB/g -> A repl B   (exactly one newline between the two tokens)
RECURSIVE ReplNLBetween(_, _, _, _)
ReplNLBetween(s, A, B, repl) ==
  LET C == {i \in 1..(Len(s) - 2) :
              s[i] \in A /\ s[i + 1] = NL /\ s[i + 2] \in B} IN
  IF C = {} THEN s
  ELSE LET i == First(C)
       IN SubSeq(s, 1, i) \o repl \o <<s[i + 2]>>
          \o ReplNLBetween(SubSeq(s, i + 3, Len(s)), A, B, repl)

\* /A\n\s*/g -> A
RECURSIVE RemAfter(_, _)
RemAfter(s, A) ==
  LET C == {i \in 1..(Len(s) - 1) : s[i] \in A /\ s[i + 1] = NL} IN
  IF C = {} THEN s
  ELSE LET i == First(C)
       IN SubSeq(s, 1, i) \o RemAfter(SubSeq(s, AfterWS(s, i + 1), Len(s)), A)

\* /A\n/g -> A
RECURSIVE RemNLAfter(_, _)
RemNLAfter(s, A) ==
  LET C == {i \in 1..(Len(s) - 1) : s[i] \in A /\ s[i + 1] = NL} IN
  IF C = {} THEN s
  ELSE LET i == First(C)
       IN SubSeq(s, 1, i) \o RemNLAfter(SubSeq(s, i + 2, Len(s)), A)

\* /\n\s*B/g -> B   (the match starts at the leftmost newline that only
\* whitespace separates from a B)
RECURSIVE RemBefore(_, _)
RemBefore(s, B) ==
  LET C == {i \in 1..Len(s) :
              /\ s[i] = NL
              /\ AfterWS(s, i) <= Len(s)
              /\ s[AfterWS(s, i)] \in B} IN
  IF C = {} THEN s
  ELSE LET i == First(C)
           j == AfterWS(s, i)
       IN SubSeq(s, 1, i - 1) \o <<s[j]>> \o RemBefore(SubSeq(s, j + 1, Len(s)), B)

\* /A\n\s*B/g -> AB
RECURSIVE RemBetween(_, _, _)
RemBetween(s, A, B) ==
  LET C == {i \in 1..(Len(s) - 1) :
              /\ s[i] \in A
              /\ s[i + 1] = NL
              /\ AfterWS(s, i + 1) <= Len(s)
              /\ s[AfterWS(s, i + 1)] \in B} IN
  IF C = {} THEN s
  ELSE LET i == First(C)
           j == AfterWS(s, i + 1)
       IN SubSeq(s, 1, i) \o <<s[j]>> \o RemBetween(SubSeq(s, j + 1, Len(s)), A, B)

\* ------------------------------------------------------------------------
\* formatTableXhtml: the thirteen replace steps, in the order of the source.
\* ------------------------------------------------------------------------
formatTableXhtml(xhtml) ==
  LET s1  == InsAfter(xhtml, TableOpen, <<NL>>)
      s2a == InsAfter(s1,  {"<tbody>"}, <<NL>> \o Spaces(2))
      s2b == InsAfter(s2a, {"<thead>"}, <<NL>> \o Spaces(2))
      s2  == InsAfter(s2b, {"<tfoot>"}, <<NL>> \o Spaces(2))
      s3a == InsBefore(s2,  {"</tbody>"}, <<NL>>)
      s3b == InsBefore(s3a, {"</thead>"}, <<NL>>)
      s3  == InsBefore(s3b, {"</tfoot>"}, <<NL>>)
      s4a == InsBetween(s3,  {"</thead>"}, {"<tbody>"}, <<NL>>)
      s4b == InsBetween(s4a, {"</tbody>"}, {"<tfoot>"}, <<NL>>)
      s4  == InsBetween(s4b, {"</tfoot>"}, {"<tbody>"}, <<NL>>)
      s5a == InsBetween(s4,  {"</tbody>"}, {"</table>"}, <<NL>>)
      s5b == InsBetween(s5a, {"</thead>"}, {"</table>"}, <<NL>>)
      s5  == InsBetween(s5b, {"</tfoot>"}, {"</table>"}, <<NL>>)
      s6  == InsAfter(s5, {"</table>"}, <<NL>>)
      s7  == InsBetween(s6, {"</tr>"}, {"<tr>"}, <<NL>> \o Spaces(2))
      s8  == InsAfter(s7, {"<tr>"}, <<NL>> \o Spaces(4))
      s9  == InsBefore(s8, {"</tr>"}, <<NL>> \o Spaces(2))
      s10a == InsBetween(s9,   {"</td>"}, TdOpen, <<NL>> \o Spaces(4))
      s10b == InsBetween(s10a, {"</th>"}, ThOpen, <<NL>> \o Spaces(4))
      s10c == InsBetween(s10b, {"</td>"}, ThOpen, <<NL>> \o Spaces(4))
      s10  == InsBetween(s10c, {"</th>"}, TdOpen, <<NL>> \o Spaces(4))
      s11a == ReplNLBetween(s10, Tags, {"<colgroup>"}, <<NL>>)
      s11b == InsBetween(s11a, {"</colgroup>"}, {"<tbody>"}, <<NL>>)
      s11  == InsBetween(s11b, {"</colgroup>"}, {"<thead>"}, <<NL>>)
      s12a == InsBetween(s11,  Tags, BlockOpen, <<NL>> \o Spaces(6))
      s12  == InsBetween(s12a, BlockClose, CellClose, <<NL>> \o Spaces(4))
      s13a == InsBetween(s12,  Tags, ListOpen, <<NL>> \o Spaces(6))
      s13  == InsBetween(s13a, ListClose, CloseTags, <<NL>> \o Spaces(4))
  IN  s13

\* ------------------------------------------------------------------------
\* unformatTableXhtml: the thirteen inverse steps, in the order of the source.
\* ------------------------------------------------------------------------
unformatTableXhtml(xhtml) ==
  LET s1  == RemAfter(xhtml, TableOpen)
      s2a == RemAfter(s1,  {"<tbody>"})
      s2b == RemAfter(s2a, {"<thead>"})
      s2  == RemAfter(s2b, {"<tfoot>"})
      s3a == RemBefore(s2,  {"</tbody>"})
      s3b == RemBefore(s3a, {"</thead>"})
      s3  == RemBefore(s3b, {"</tfoot>"})
      s4a == RemBetween(s3,  {"</thead>"}, {"<tbody>"})
      s4b == RemBetween(s4a, {"</tbody>"}, {"<tfoot>"})
      s4  == RemBetween(s4b, {"</tfoot>"}, {"<tbody>"})
      s5a == RemBetween(s4,  {"</tbody>"}, {"</table>"})
      s5b == RemBetween(s5a, {"</thead>"}, {"</table>"})
      s5  == RemBetween(s5b, {"</tfoot>"}, {"</table>"})
      s6  == RemNLAfter(s5, {"</table>"})
      s7  == RemBetween(s6, {"</tr>"}, {"<tr>"})
      s8  == RemAfter(s7, {"<tr>"})
      s9  == RemBefore(s8, {"</tr>"})
      s10a == RemBetween(s9,   {"</td>"}, TdOpen)
      s10b == RemBetween(s10a, {"</th>"}, ThOpen)
      s10c == RemBetween(s10b, {"</td>"}, ThOpen)
      s10  == RemBetween(s10c, {"</th>"}, TdOpen)
      s11a == ReplNLBetween(s10, Tags, {"<colgroup>"}, <<>>)
      s11b == RemBetween(s11a, {"</colgroup>"}, {"<tbody>"})
      s11  == RemBetween(s11b, {"</colgroup>"}, {"<thead>"})
      s12a == RemBetween(s11,  Tags, BlockOpen)
      s12  == RemBetween(s12a, BlockClose, CellClose)
      s13a == RemBetween(s12,  Tags, ListOpen)
      s13  == RemBetween(s13a, ListClose, CloseTags)
  IN  s13

\* ------------------------------------------------------------------------
\* Values.
\* ------------------------------------------------------------------------

\* computeSha256: SHA-256 is taken to be collision free, so a digest is
\* determined by, and determines, the data that was hashed.
computeSha256(data) == <<"sha256", data>>

\* storageSha256: "" of the metadata that downloadAttachments creates
EmptySha == <<>>

\* the result of readJsonFile when meta.json is absent (null)
NoMeta == [exists |-> FALSE]

\* a file that is absent (ENOENT)
NoFile == [exists |-> FALSE, content |-> <<>>]
File(content) == [exists |-> TRUE, content |-> content]

\* remote page bodies (storage format)
BodyP == <<"<p>", "x", "</p>">>
BodyT == <<"<table>", "<tbody>", "<tr>", "<td>", "x", "</td>", "</tr>",
           "</tbody>", "</table>">>
Bodies == {BodyP, BodyT}

\* what a user may write into page.xhtml
EditP == <<"<p>", "y", "</p>">>
EditT == formatTableXhtml(<<"<table>", "<tbody>", "<tr>", "<td>", "y", "</td>",
                            "</tr>", "</tbody>", "</table>">>)
LocalEdits == {EditP, EditT}

\* what somebody else may turn the page into
ExternalEdits == {[title |-> "Title", body |-> BodyP],
                  [title |-> "Renamed", body |-> BodyT]}

\* bounds
MaxVersion == 3
MaxEnvSteps == 2

\* replies of the remote to one request
ReplyOk == [kind |-> "ok"]
Http(status) == [kind |-> "http", status |-> status]
\* an aborted request: which signal fired, the timeout's or the caller's,
\* and the reason of the combined signal: an Error or not, its message
\* containing "timeout" or not.  AbortSignal.timeout() aborts with "The
\* operation was aborted due to timeout", AbortController.abort() with "This
\* operation was aborted"; the caller's signal may itself be an
\* AbortSignal.timeout().
TimeoutReason == [isError |-> TRUE, mentionsTimeout |-> TRUE]
AbortReason == [isError |-> TRUE, mentionsTimeout |-> FALSE]
Aborted(fired, reason) == [kind |-> "abort", fired |-> fired, reason |-> reason]
TimedOut == Aborted("timeout", TimeoutReason)
CallerAborts == {Aborted("signal", AbortReason), Aborted("signal", TimeoutReason)}
FailureReplies == {Http(503), TimedOut}
Replies == {ReplyOk} \cup FailureReplies \cup CallerAborts

\* getAbortReason(signal)
getAbortReason(reply) ==
  IF reply.reason.isError /\ reply.reason.mentionsTimeout THEN "timeout"
  ELSE "cancelled"

\* the abortReason of the warning the client logs for a failed request
clientWarnings(reply) ==
  IF reply.kind = "abort" THEN <<getAbortReason(reply)>> ELSE <<>>

\* which remote call of a sync call fails, and how: none, or the at-th
NoFailure == [at |-> 0, reply |-> ReplyOk]
FailureAt(k, reply) == IF reply = ReplyOk THEN NoFailure ELSE [at |-> k, reply |-> reply]
Failures(maxCalls) ==
  {NoFailure} \cup {[at |-> k, reply |-> r] : k \in 1..maxCalls, r \in FailureReplies}

\* errors: the class of the error object and, for ConfluenceClientError,
\* its code
NoError == [class |-> "none", code |-> "none"]
ClientError(code) == [class |-> "ConfluenceClientError", code |-> code]
DomainError(class, msg) == [class |-> class, code |-> msg]
\* the error of an aborted request, thrown on as it is
AbortError == DomainError("AbortError", "aborted")

\* the error getPage throws for a failed request
getPageError(reply) ==
  IF reply.kind = "abort" THEN AbortError
  ELSE CASE reply.status = 401 -> DomainError("AuthenticationError", "401")
         [] reply.status = 403 -> DomainError("AuthorizationError", "403")
         [] reply.status = 404 -> DomainError("PageNotFoundError", "404")
         [] reply.status = 429 -> DomainError("RateLimitError", "429")
         [] reply.status \in {500, 502, 503} ->
              DomainError("ExternalServiceError", "Server error")
         [] OTHER -> DomainError("ExternalServiceError", "Failed to get page")

\* the error updatePage throws for a failed request
updatePageError(reply) ==
  IF reply.kind = "abort" THEN AbortError
  ELSE CASE reply.status = 401 -> DomainError("AuthenticationError", "401")
         [] reply.status = 403 -> DomainError("AuthorizationError", "403")
         [] reply.status = 404 -> DomainError("PageNotFoundError", "404")
         [] reply.status = 409 ->
              DomainError("ExternalServiceError", "Version conflict")
         [] reply.status = 429 -> DomainError("RateLimitError", "429")
         [] reply.status \in {500, 502, 503} ->
              DomainError("ExternalServiceError", "Server error")
         [] OTHER -> DomainError("ExternalServiceError", "Failed to update page")

\* the error updatePage throws when the request failed with something that
\* is not an HTTP error
updatePageUnexpected ==
  DomainError("ExternalServiceError", "Unexpected error while updating page")

\* error.code: the one a ConfluenceClientError is constructed with; the
\* one its class hands to DomainError, whatever the message; none for an
\* error that is not a DomainError
errorCode(err) ==
  CASE err.class = "ConfluenceClientError" -> err.code
    [] err.class = "ExternalServiceError" -> "EXTERNAL_SERVICE_ERROR"
    [] err.class = "PageNotFoundError" -> "PAGE_NOT_FOUND"
    [] err.class = "AuthenticationError" -> "AUTHENTICATION_ERROR"
    [] err.class = "AuthorizationError" -> "AUTHORIZATION_ERROR"
    [] err.class = "RateLimitError" -> "RATE_LIMIT_ERROR"
    [] err.class = "InvalidUrlError" -> "INVALID_URL_ERROR"
    [] OTHER -> "none"

\* the attachment filter of a call: absent, or a list of titles
NoFilter == [given |-> FALSE, includeTitles |-> <<>>]
Filter(titles) == [given |-> TRUE, includeTitles |-> titles]

\* one record of a log file written by writeLog
LogEntry(file, status) == [file |-> file, status |-> status]

\* ------------------------------------------------------------------------
\* Page URLs: strings as sequences of characters.
\* ------------------------------------------------------------------------
Digits == {"0", "1", "2", "3", "4", "5", "6", "7", "8", "9"}
PagesSlash == <<"/", "p", "a", "g", "e", "s", "/">>

\* /\/pages\/(\d+)(?:\/|$)/ matches at `at` with the digits ending at `last`
MatchAt(url, at, last) ==
  /\ at + Len(PagesSlash) <= last
  /\ last <= Len(url)
  /\ SubSeq(url, at, at + Len(PagesSlash) - 1) = PagesSlash
  /\ \A k \in (at + Len(PagesSlash))..last : url[k] \in Digits
  /\ (last = Len(url) \/ url[last + 1] = "/")

\* a pattern without its last group: /\/pages\/(\d+)/
extractPageIdLoosely(url) ==
  LET starts == {at \in 1..Len(url) :
                   /\ at + Len(PagesSlash) <= Len(url)
                   /\ SubSeq(url, at, at + Len(PagesSlash) - 1) = PagesSlash
                   /\ url[at + Len(PagesSlash)] \in Digits}
  IN IF starts = {} THEN [thrown |-> TRUE, pageId |-> <<>>]
     ELSE [thrown |-> FALSE,
           pageId |-> <<url[(CHOOSE at \in starts : \A o \in starts : at <= o)
                            + Len(PagesSlash)]>>]

\* extractPageIdFromUrl: the digits of the leftmost match, or InvalidUrlError
\* thrown
extractPageIdFromUrl(url) ==
  LET starts == {at \in 1..Len(url) : \E last \in 1..Len(url) : MatchAt(url, at, last)}
  IN IF starts = {} THEN [thrown |-> TRUE, pageId |-> <<>>]
     ELSE LET at == CHOOSE a \in starts : \A o \in starts : a <= o
              last == CHOOSE l \in 1..Len(url) : MatchAt(url, at, l)
          IN [thrown |-> FALSE, pageId |-> SubSeq(url, at + Len(PagesSlash), last)]

\* the URLs a call may be given: those of the page, whose id is 12, and
\* others
Wiki == <<"h", ":", "/", "/", "w", "/", "s">>
ViewPage == <<"/", "v", "?", "p", "a", "g", "e", "I", "d", "=", "1", "2">>
PageUrl == Wiki \o PagesSlash \o <<"1", "2">>
ValidUrls ==
  {PageUrl,
   PageUrl \o <<"/">>,
   PageUrl \o <<"/", "T", "?", "a">>,
   Wiki \o PagesSlash \o <<"x">> \o PagesSlash \o <<"1", "2", "/", "T">>}
InvalidUrls ==
  {<<>>,
   Wiki,
   Wiki \o ViewPage,
   Wiki \o PagesSlash,
   Wiki \o PagesSlash \o <<"T">>,
   PageUrl \o <<"x">>,
   PageUrl \o <<"?", "a">>,
   Wiki \o <<"/", "p", "a", "g", "e", "/", "1", "2">>,
   Wiki \o <<"/", "P", "a", "g", "e", "s", "/", "1", "2">>,
   Wiki \o <<"/", "p", "a", "g", "e", "s", "1", "2">>}
Urls == ValidUrls \cup InvalidUrls

\* ------------------------------------------------------------------------
\* State.
\* ------------------------------------------------------------------------
VARIABLES
  remotePage,   \* the page on Confluence: [version, title, body]
  remoteAtts,   \* its attachments, in listing order: [id, title, version, data]
  meta,         \* meta.json: NoMeta or the PageMeta record
  pageFile,     \* page.xhtml
  attFiles,     \* attachments/<title>, for every title
  logs,         \* the records the current (or last) call appended to log/
  warned,       \* the abortReason of the warnings the client logged in that call
  remoteCalls,  \* the remote endpoints the current (or last) call invoked
  result,       \* what the last call returned or threw
  pre,          \* the cache and the remote as the current (or last) call found them
  pc,           \* "idle", or the await at which uploadBody is suspended
  upl,          \* uploadBody's locals while it is suspended
  extEdit,      \* an external edit of the page is not yet known locally
  localEdit,    \* the body file holds an edit of the user that no upload has sent
  pageUrl,      \* the page URL the sync calls are given
  cacheDirs,    \* preparePaths has created the directories of the cache
  envSteps,     \* how many edits users have made so far, on either side
  markup,       \* formatter run: the input markup
  formatted,    \* formatter run: formatTableXhtml(markup)
  collapsed,    \* formatter run: unformatTableXhtml(formatted)
  fpc,          \* formatter run: "input", "formatted", "collapsed"
  logArg,       \* writeLog run: the entry handed to writeLog
  logLine,      \* writeLog run: the object whose JSON text is appended
  mpc,          \* writeLog run: "input", "written"
  helperCall,   \* file helper run: the helper called and how its fs call ends
  helperResult, \* file helper run: how the helper's promise settles
  hpc           \* file helper run: "input", "settled"

vars == <<remotePage, remoteAtts, meta, pageFile, attFiles, logs, warned, remoteCalls,
          result, pre, pc, upl, extEdit, localEdit, pageUrl, cacheDirs, envSteps,
          markup, formatted, collapsed,
          fpc, logArg, logLine, mpc, helperCall, helperResult, hpc>>
remoteVars == <<remotePage, remoteAtts>>
fmtVars == <<markup, formatted, collapsed, fpc>>
maskVars == <<logArg, logLine, mpc>>
fsVars == <<helperCall, helperResult, hpc>>
urlVars == <<pageUrl, cacheDirs>>

\* a user edit, on Confluence or in the cache directory, is one more step
UserStep == envSteps < MaxEnvSteps /\ envSteps' = envSteps + 1

\* ------------------------------------------------------------------------
\* Results of a call.
\* ------------------------------------------------------------------------
NoResult ==
  [op |-> "none", status |-> "none", error |-> NoError, skipped |-> FALSE,
   pageUpdated |-> FALSE, downloaded |-> <<>>, uploaded |-> <<>>,
   skippedAtts |-> <<>>, removed |-> <<>>, logFiles |-> <<>>]
Returned(op) == [NoResult EXCEPT !.op = op, !.status = "returned"]
Thrown(op, error) == [NoResult EXCEPT !.op = op, !.status = "thrown", !.error = error]

\* logFiles: the paths writeLog returned, which a call collects in a local
\* array; the object it returns holds the array, the error it throws does not
callerGets(res, written) ==
  IF res.status = "returned"
  THEN [res EXCEPT !.logFiles = [i \in 1..Len(written) |-> written[i].file]]
  ELSE res

\* what a call is given (its filter, and which of its remote calls fails,
\* how) and what it finds when it starts; for a body call also how the call
\* before it ended (NoPrev when something else happened in between)
NoPre == [exists |-> FALSE]
NoPrev == [op |-> "none", status |-> "none", skipped |-> FALSE, pageUpdated |-> FALSE]
Prev == [op |-> result.op, status |-> result.status, skipped |-> result.skipped,
         pageUpdated |-> result.pageUpdated]
Snapshot(op, filter, failure, prev) ==
  [exists |-> TRUE, op |-> op, filter |-> filter, failure |-> failure,
   meta |-> meta, pageFile |-> pageFile, attFiles |-> attFiles,
   remotePage |-> remotePage, remoteAtts |-> remoteAtts, localEdit |-> localEdit,
   cacheDirs |-> cacheDirs, prev |-> prev]

\* a sync call given a URL from which no page id can be extracted:
\* extractPageIdFromUrl throws in the first statement of the method, before
\* preparePaths and writeLog
InvalidUrlError == DomainError("InvalidUrlError", "Cannot extract page ID from URL")
InvalidUrl(op) ==
  /\ result' = Thrown(op, InvalidUrlError)
  /\ pre' = Snapshot(op, NoFilter, NoFailure, NoPrev)
  /\ logs' = <<>>
  /\ warned' = <<>>
  /\ remoteCalls' = <<>>
  /\ UNCHANGED <<remoteVars, meta, pageFile, attFiles, pc, upl, extEdit, localEdit,
                 envSteps, fmtVars, maskVars, fsVars, urlVars>>

\* ------------------------------------------------------------------------
\* downloadBody
\* ------------------------------------------------------------------------

\* a download that compares the stored hash with the hash of the text it
\* would write
shouldSkipByFormatted(existingMeta, page, storageSha) ==
  /\ existingMeta # NoMeta
  /\ existingMeta.version = page.version
  /\ existingMeta.storageSha256 = computeSha256(formatTableXhtml(page.body))

\* shouldSkip: the stored version and hash against the fetched page
shouldSkipDownload(existingMeta, page, storageSha) ==
  /\ existingMeta # NoMeta
  /\ existingMeta.version = page.version
  /\ existingMeta.storageSha256 = storageSha

\* storageSha: the hash downloadBody compares and records
downloadStorageSha(storageContent) == computeSha256(storageContent)

\* how writeTextFile may end: the file written; an error with the file left
\* as it was; an error after the file was opened and truncated
WriteOutcomes == {"ok", "refused", "truncated"}
WriteFailed(write) == [kind |-> "io", outcome |-> write]
writeTextFileError == DomainError("Error", "EIO")
writeTextFile(file, content, write) ==
  CASE write = "ok" -> File(content)
    [] write = "refused" -> file
    [] write = "truncated" -> File(<<>>)

\* a download that writes the body as it came
downloadUnformattedContent(storageContent) == storageContent

\* formattedContent: the text downloadBody writes to the body file
downloadFormattedContent(storageContent) == formatTableXhtml(storageContent)

\* a download that writes meta.json before the body file
metaWrittenFirst(existingMeta, nextMeta) == nextMeta

\* meta.json when writeTextFile has thrown: writeJsonFile comes after it
\* and is not reached
metaAfterFailedWrite(existingMeta, nextMeta) == existingMeta

\* a download that starts the attachments list afresh
nextAttachmentsEmpty(existingMeta) == <<>>

\* attachments: existingMeta?.attachments ?? []
nextAttachments(existingMeta) ==
  IF existingMeta # NoMeta THEN existingMeta.attachments ELSE <<>>

\* the whole call, given getPage's reply and the outcome of writeTextFile:
\* what it leaves on disk, what it logged, which remote calls it made and
\* what the caller gets
downloadBody(existingMeta, file, page, reply, write) ==
  LET startLog == LogEntry("download-body", "started")
      failedLog == LogEntry("error-body-download", "failed")
  IN
  IF reply # ReplyOk
  THEN [meta |-> existingMeta, pageFile |-> file,
        logs |-> <<startLog, failedLog>>,
        calls |-> <<"getPage">>,
        result |-> Thrown("downloadBody", getPageError(reply))]
  ELSE
    LET storageContent == page.body
        storageSha == downloadStorageSha(storageContent)
        shouldSkip == shouldSkipDownload(existingMeta, page, storageSha)
        nextMeta ==
          [exists |-> TRUE,
           title |-> page.title,
           version |-> page.version,
           storageSha256 |-> IF shouldSkip THEN existingMeta.storageSha256
                             ELSE storageSha,
           attachments |-> nextAttachments(existingMeta)]
    IN IF ~shouldSkip /\ write # "ok"
       THEN [meta |-> metaAfterFailedWrite(existingMeta, nextMeta),
             pageFile |-> writeTextFile(file, downloadFormattedContent(storageContent), write),
             logs |-> <<startLog, failedLog>>,
             calls |-> <<"getPage">>,
             result |-> Thrown("downloadBody", writeTextFileError)]
       ELSE [meta |-> nextMeta,
             pageFile |-> IF shouldSkip THEN file
                          ELSE writeTextFile(file, downloadFormattedContent(storageContent), write),
             logs |-> <<startLog>>,
             calls |-> <<"getPage">>,
             result |-> [Returned("downloadBody") EXCEPT !.skipped = shouldSkip]]

DownloadBody ==
  /\ pc = "idle"
  /\ IF extractPageIdFromUrl(pageUrl).thrown
     THEN InvalidUrl("downloadBody")
     ELSE
       \* preparePaths
       /\ cacheDirs' = TRUE
       /\ \E reply \in Replies, write \in WriteOutcomes :
            \E out \in {downloadBody(meta, pageFile, remotePage, reply, write)} :
            \* the failing write is one the call makes
            /\ write # "ok" => out.result.error = writeTextFileError
            /\ meta' = out.meta
            /\ pageFile' = out.pageFile
            /\ logs' = out.logs
            /\ warned' = clientWarnings(reply)
            /\ remoteCalls' = out.calls
            /\ result' = callerGets(out.result, out.logs)
            /\ extEdit' = IF out.result.status = "returned" THEN FALSE ELSE extEdit
            \* an edit is in the file as long as the file is what the user left
            /\ localEdit' = (localEdit /\ out.pageFile = pageFile)
            /\ pre' = Snapshot("downloadBody", NoFilter,
                               IF write # "ok" THEN [at |-> 2, reply |-> WriteFailed(write)]
                               ELSE FailureAt(1, reply),
                               Prev)
       /\ UNCHANGED <<remoteVars, attFiles, pc, upl, envSteps, fmtVars, maskVars, fsVars, pageUrl>>
\* ------------------------------------------------------------------------
\* uploadBody
\* ------------------------------------------------------------------------

\* an upload that does not look at the fetched version
versionConflictIgnored(remoteVersion, localVersion) == FALSE

\* the version check that precedes any remote mutation
versionConflict(remoteVersion, localVersion) == remoteVersion # localVersion

\* an upload that sends the body whatever its hash
pageUpdatedAlways(localSha, storedSha) == TRUE

\* pageUpdated: the hash of the local formatted text against the stored one
pageUpdatedCheck(localSha, storedSha) == localSha # storedSha

NoUpl == [active |-> FALSE]

\* an upload that does not look for the body file
pageFileAbsentIgnored(file) == FALSE

\* !(await fileExists(paths.pageFile))
pageFileAbsent(file) == ~file.exists

\* an upload that sends the body file as it is
uploadFormattedContent(formattedContent) == formattedContent

\* storageContent: the text uploadBody hands to updatePage
uploadStorageContent(formattedContent) == unformatTableXhtml(formattedContent)

\* uploadBody up to its last await before updatePage
uploadBodyBegin(m, file, page, reply) ==
  LET startLog == LogEntry("upload-body", "started")
      failedLog == LogEntry("error-body-upload", "failed")
      done(mm, lg, cl, res) ==
        [meta |-> mm, logs |-> lg, calls |-> cl, result |-> res,
         pc |-> "idle", upl |-> NoUpl]
  IN
  IF m = NoMeta
  THEN done(m, <<startLog>>, <<>>,
            Thrown("uploadBody", ClientError("META_NOT_FOUND")))
  ELSE IF pageFileAbsent(file)
  THEN done(m, <<startLog>>, <<>>,
            Thrown("uploadBody", ClientError("PAGE_FILE_NOT_FOUND")))
  ELSE IF reply # ReplyOk
  THEN done(m, <<startLog, failedLog>>, <<"getPage">>,
            Thrown("uploadBody", getPageError(reply)))
  ELSE IF versionConflict(page.version, m.version)
  THEN done(m, <<startLog, failedLog>>, <<"getPage">>,
            Thrown("uploadBody", ClientError("VERSION_CONFLICT")))
  ELSE
    LET formattedContent == file.content
        storageContent == uploadStorageContent(formattedContent)
        localSha == computeSha256(formattedContent)
        pageUpdated == pageUpdatedCheck(localSha, m.storageSha256)
    IN IF ~pageUpdated
       THEN done(m, <<startLog>>, <<"getPage">>, Returned("uploadBody"))
       ELSE [meta |-> m, logs |-> <<startLog>>, calls |-> <<"getPage">>,
             result |-> NoResult, pc |-> "updatePage",
             upl |-> [active |-> TRUE, meta |-> m, title |-> page.title,
                      version |-> page.version,
                      storageContent |-> storageContent,
                      localSha |-> localSha]]

UploadBodyBegin ==
  /\ pc = "idle"
  /\ IF extractPageIdFromUrl(pageUrl).thrown
     THEN InvalidUrl("uploadBody")
     ELSE
       \* preparePaths
       /\ cacheDirs' = TRUE
       /\ \E reply \in Replies :
            \E out \in {uploadBodyBegin(meta, pageFile, remotePage, reply)} :
            \* the failing call is one the call makes
            /\ reply # ReplyOk => out.calls # <<>>
            /\ out.pc = "updatePage" => remotePage.version < MaxVersion
            /\ meta' = out.meta
            /\ logs' = out.logs
            /\ warned' = clientWarnings(reply)
            /\ remoteCalls' = out.calls
            /\ result' = callerGets(out.result, out.logs)
            /\ pc' = out.pc
            /\ upl' = out.upl
            /\ extEdit' = extEdit
            /\ localEdit' = IF out.pc = "idle" /\ out.result.status = "returned"
                            THEN FALSE ELSE localEdit
            /\ pre' = Snapshot("uploadBody", NoFilter, FailureAt(1, reply), Prev)
       /\ UNCHANGED <<remoteVars, pageFile, attFiles, envSteps, fmtVars, maskVars, fsVars, pageUrl>>
\* the remote's handling of PUT /content/{id}: the request carries
\* version.number = version + 1 and is accepted when that is the successor of
\* the page's current version, else answered 409
updatePageRequestNumber(version) == version + 1
remoteAcceptsAny(page, number) == TRUE
remoteAcceptsUpdate(page, number) == number = page.version + 1

\* an upload that keeps the version it had
uploadedVersionKept(u, updatedPage) == u.version

\* version: updatedPage.version.number of the metadata an upload writes
uploadedVersion(u, updatedPage) == updatedPage.version

\* uploadBody from updatePage to its end
uploadBodyUpdate(u, page, reply) ==
  LET failedLog == LogEntry("error-body-upload", "failed")
      number == updatePageRequestNumber(u.version)
      updatedPage == [version |-> number, title |-> u.title,
                      body |-> u.storageContent]
      answer == IF reply # ReplyOk THEN reply
                ELSE IF remoteAcceptsUpdate(page, number) THEN ReplyOk
                ELSE Http(409)
  IN
  IF answer # ReplyOk
  THEN [meta |-> u.meta, remotePage |-> page, logs |-> <<failedLog>>,
        result |-> Thrown("uploadBody", updatePageError(answer))]
  ELSE [meta |-> [u.meta EXCEPT !.version = uploadedVersion(u, updatedPage),
                                !.storageSha256 = u.localSha],
        remotePage |-> updatedPage,
        logs |-> <<>>,
        result |-> [Returned("uploadBody") EXCEPT !.pageUpdated = TRUE]]

UploadBodyUpdate ==
  /\ pc = "updatePage"
  /\ \E reply \in Replies :
       \E out \in {uploadBodyUpdate(upl, remotePage, reply)} :
       /\ meta' = out.meta
       /\ remotePage' = out.remotePage
       /\ logs' = logs \o out.logs
       /\ warned' = warned \o clientWarnings(reply)
       /\ result' = callerGets(out.result, logs \o out.logs)
       /\ extEdit' = IF out.result.status = "returned" THEN FALSE ELSE extEdit
       /\ localEdit' = IF out.result.status = "returned" THEN FALSE ELSE localEdit
       /\ pre' = [pre EXCEPT !.failure = FailureAt(2, reply)]
  /\ remoteCalls' = Append(remoteCalls, "updatePage")
  /\ pc' = "idle"
  /\ upl' = NoUpl
  /\ UNCHANGED <<remoteAtts, pageFile, attFiles, envSteps, fmtVars, maskVars, fsVars, urlVars>>

\* ------------------------------------------------------------------------
\* The environment of the body operations.
\* ------------------------------------------------------------------------

\* somebody else edits the page on Confluence
ExternalEdit ==
  /\ UserStep
  /\ remotePage.version < MaxVersion
  /\ \E e \in ExternalEdits :
       /\ e.body # remotePage.body
       /\ remotePage' = [version |-> remotePage.version + 1, title |-> e.title,
                         body |-> e.body]
  /\ extEdit' = TRUE
  /\ IF pc = "idle"
     THEN /\ result' = NoResult /\ pre' = NoPre
          /\ logs' = <<>> /\ warned' = <<>> /\ remoteCalls' = <<>>
     ELSE UNCHANGED <<result, pre, logs, warned, remoteCalls>>
  /\ UNCHANGED <<remoteAtts, meta, pageFile, attFiles, pc, upl, localEdit, fmtVars, maskVars,
                 fsVars, urlVars>>

\* the user edits page.xhtml
LocalEdit ==
  /\ pc = "idle"
  /\ UserStep
  /\ pageFile.exists
  /\ \E c \in LocalEdits :
       /\ c # pageFile.content
       /\ pageFile' = File(c)
  /\ localEdit' = TRUE
  /\ result' = NoResult /\ pre' = NoPre /\ logs' = <<>> /\ warned' = <<>>
  /\ remoteCalls' = <<>>
  /\ UNCHANGED <<remoteVars, meta, attFiles, pc, upl, extEdit, fmtVars, maskVars, fsVars, urlVars>>

\* the user deletes page.xhtml
LocalDelete ==
  /\ pc = "idle"
  /\ UserStep
  /\ pageFile.exists
  /\ pageFile' = NoFile
  /\ localEdit' = FALSE
  /\ result' = NoResult /\ pre' = NoPre /\ logs' = <<>> /\ warned' = <<>>
  /\ remoteCalls' = <<>>
  /\ UNCHANGED <<remoteVars, meta, attFiles, pc, upl, extEdit, fmtVars, maskVars, fsVars, urlVars>>

\* ------------------------------------------------------------------------
\* Attachments: values.
\* ------------------------------------------------------------------------
AttTitles == {"a.png", "b.png"}
\* attachment bytes
AttData == {<<"d1">>, <<"d2">>}
AttIds == {"att1", "att2", "att3"}

\* bounds
MaxAttVersion == 2

Filters == {NoFilter, Filter(<<>>), Filter(<<" a.png ", "c.png">>)}

\* filter titles taken as they are written
trimNothing(title) == title

\* String.prototype.trim on the titles a filter may carry
trim(title) == IF title = " a.png " THEN "a.png" ELSE title

\* filterSet: null (hasFilterSet false) unless the list is given and not empty
hasFilterSet(filter) == filter.given /\ Len(filter.includeTitles) > 0
filterSet(filter) ==
  {trim(filter.includeTitles[i]) : i \in 1..Len(filter.includeTitles)}

Titles(seq) == {seq[i].title : i \in 1..Len(seq)}
TitleSeq(seq) == [i \in 1..Len(seq) |-> seq[i].title]

\* Array.prototype.findIndex by title: the first index, or 0
FindIndex(seq, title) ==
  IF \E i \in 1..Len(seq) : seq[i].title = title
  THEN CHOOSE i \in 1..Len(seq) :
         /\ seq[i].title = title
         /\ \A j \in 1..(i - 1) : seq[j].title # title
  ELSE 0

\* new Map(list.map(a => [a.title, a])).get(title): the last entry wins
MapGet(seq, title) ==
  seq[CHOOSE i \in 1..Len(seq) :
        /\ seq[i].title = title
        /\ \A j \in (i + 1)..Len(seq) : seq[j].title # title]

\* entries matched by the remote id instead
UpsertById(seq, entry) ==
  IF \E i \in 1..Len(seq) : seq[i].id = entry.id
  THEN [seq EXCEPT ![CHOOSE i \in 1..Len(seq) : seq[i].id = entry.id] = entry]
  ELSE Append(seq, entry)

\* replace the first entry of that title, or append
Upsert(seq, entry) ==
  IF FindIndex(seq, entry.title) > 0
  THEN [seq EXCEPT ![FindIndex(seq, entry.title)] = entry]
  ELSE Append(seq, entry)

\* getAttachments: what the client returns for the remote listing; the
\* mapping keeps id and title (downloadUrl, fileSize, mediaType are not
\* modelled) and carries no version
getAttachments(atts) ==
  [i \in 1..Len(atts) |-> [id |-> atts[i].id, title |-> atts[i].title]]

\* info.version ?? fallback
infoVersion(info, fallback) ==
  IF "version" \in DOMAIN info THEN info.version ELSE fallback

\* createDomainError, and the abort branch before it
createDomainError(reply) ==
  IF reply.kind = "abort" THEN AbortError
  ELSE CASE reply.status = 401 -> DomainError("AuthenticationError", "401")
         [] reply.status = 403 -> DomainError("AuthorizationError", "403")
         [] reply.status = 404 -> DomainError("PageNotFoundError", "404")
         [] reply.status = 429 -> DomainError("RateLimitError", "429")
         [] reply.status \in {500, 502, 503} ->
              DomainError("ExternalServiceError", "Server error")
         [] OTHER -> DomainError("ExternalServiceError", "Failed")

\* the bytes the remote serves for an attachment id
remoteData(atts, id) ==
  (CHOOSE a \in {atts[i] : i \in 1..Len(atts)} : a.id = id).data

\* the remote's handling of an attachment upload: a new version of the
\* attachment of that file name, or a new attachment
freshId(atts) == CHOOSE id \in AttIds : \A i \in 1..Len(atts) : atts[i].id # id
remoteUpload(atts, title, data) ==
  IF title \in Titles(atts)
  THEN [i \in 1..Len(atts) |->
          IF atts[i].title = title
          THEN [atts[i] EXCEPT !.version = @ + 1, !.data = data]
          ELSE atts[i]]
  ELSE Append(atts, [id |-> freshId(atts), title |-> title, version |-> 1,
                     data |-> data])

\* uploadAttachment: what the client returns (no version)
uploadAttachmentInfo(atts, title) ==
  LET a == CHOOSE x \in {atts[i] : i \in 1..Len(atts)} : x.title = title
  IN [id |-> a.id, title |-> a.title]

\* ------------------------------------------------------------------------
\* downloadAttachments.  failAt is the position, among the remote calls the
\* call makes, of the one that fails with `reply` (0: none fails).
\* ------------------------------------------------------------------------

\* the skip test of the download loop
skipDownload(existingAttachments, info, files) ==
  /\ info.title \in Titles(existingAttachments)
  /\ MapGet(existingAttachments, info.title).version
       = infoVersion(info, MapGet(existingAttachments, info.title).version)
  /\ files[info.title].exists

\* a download loop that goes on with the next attachment when one failed
afterDownloadThrowContinued(infos) == Tail(infos)

\* `throw error` in the catch block of the loop body: what is left of the
\* listing for the loop to go through
afterDownloadThrow(infos) == <<>>

\* for (const attachmentInfo of filteredAttachments) { ... }
RECURSIVE downloadLoop(_, _, _, _, _, _)
downloadLoop(infos, existingAttachments, atts, st, failAt, reply) ==
  IF infos = <<>> THEN st
  ELSE
    LET info == Head(infos) IN
    IF skipDownload(existingAttachments, info, st.files)
    THEN downloadLoop(Tail(infos), existingAttachments, atts,
                      [st EXCEPT !.skipped = Append(@, info.title)],
                      failAt, reply)
    ELSE IF Len(st.calls) + 1 = failAt
    THEN downloadLoop(afterDownloadThrow(infos), existingAttachments, atts,
                      [st EXCEPT !.calls = Append(@, "downloadAttachment"),
                                 !.logs = Append(@, LogEntry("error-attachment-download", "failed")),
                                 !.error = createDomainError(reply)],
                      failAt, reply)
    ELSE downloadLoop(Tail(infos), existingAttachments, atts,
                      [st EXCEPT !.calls = Append(@, "downloadAttachment"),
                                 !.files[info.title] = File(remoteData(atts, info.id)),
                                 !.downloaded = Append(@, info.title)],
                      failAt, reply)

\* the metadata entry written for a downloaded title
downloadedEntry(info, existingAttachments, files) ==
  [id |-> info.id,
   title |-> info.title,
   version |-> infoVersion(info,
                 IF FindIndex(existingAttachments, info.title) > 0
                 THEN existingAttachments[FindIndex(existingAttachments, info.title)].version
                 ELSE 1),
   sha256 |-> computeSha256(files[info.title].content)]

\* for (const title of downloaded) { ... }
RECURSIVE upsertDownloaded(_, _, _, _, _)
upsertDownloaded(downloaded, filteredAttachments, existingAttachments, files, updated) ==
  IF downloaded = <<>> THEN updated
  ELSE
    LET title == Head(downloaded) IN
    upsertDownloaded(Tail(downloaded), filteredAttachments, existingAttachments, files,
      IF title \in Titles(filteredAttachments)
      THEN Upsert(updated,
                  downloadedEntry(MapGet(filteredAttachments, title),
                                  existingAttachments, files))
      ELSE updated)

\* a download that collects garbage whatever the filter
collectsGarbageAlways(filter) == TRUE

\* garbage collection runs only without a filter set
collectsGarbage(filter) == ~hasFilterSet(filter)

\* a download that reports what it got before one attachment failed
partialDownloadResult(st) ==
  [Returned("downloadAttachments") EXCEPT !.downloaded = st.downloaded,
                                          !.skippedAtts = st.skipped]

\* what the caller gets when the loop has thrown: the error, re-thrown by
\* both catch blocks
failedDownloadResult(st) == Thrown("downloadAttachments", st.error)

downloadAttachments(existingMeta, files, page, atts, filter, failAt, reply) ==
  LET startLog == LogEntry("download-attachments", "started")
      failedLog == LogEntry("error-attachments-download", "failed")
      thrown(fs, lg, cl, res) ==
        [meta |-> existingMeta, attFiles |-> fs, logs |-> Append(lg, failedLog),
         calls |-> cl, result |-> res]
  IN
  IF failAt = 1
  THEN thrown(files, <<startLog>>, <<"getAttachments">>,
              Thrown("downloadAttachments", createDomainError(reply)))
  ELSE IF existingMeta = NoMeta /\ failAt = 2
  THEN thrown(files, <<startLog>>, <<"getAttachments", "getPage">>,
              Thrown("downloadAttachments", getPageError(reply)))
  ELSE
    LET attachmentInfos == getAttachments(atts)
        filteredAttachments ==
          IF hasFilterSet(filter)
          THEN SelectSeq(attachmentInfos, LAMBDA info : info.title \in filterSet(filter))
          ELSE attachmentInfos
        pageMeta ==
          IF existingMeta # NoMeta THEN existingMeta
          ELSE [exists |-> TRUE, title |-> page.title, version |-> page.version,
                storageSha256 |-> EmptySha, attachments |-> <<>>]
        existingAttachments == pageMeta.attachments
        st == downloadLoop(filteredAttachments, existingAttachments, atts,
                [files |-> files, downloaded |-> <<>>, skipped |-> <<>>,
                 calls |-> IF existingMeta = NoMeta
                           THEN <<"getAttachments", "getPage">>
                           ELSE <<"getAttachments">>,
                 logs |-> <<startLog>>, error |-> NoError],
                failAt, reply)
    IN
    IF st.error # NoError
    THEN thrown(st.files, st.logs, st.calls, failedDownloadResult(st))
    ELSE
      LET infoTitles == Titles(attachmentInfos)
          removed ==
            IF collectsGarbage(filter)
            THEN TitleSeq(SelectSeq(existingAttachments,
                                    LAMBDA a : a.title \notin infoTitles))
            ELSE <<>>
          removedSet == {removed[i] : i \in 1..Len(removed)}
          filesAfter == [t \in DOMAIN st.files |->
                           IF t \in removedSet THEN NoFile ELSE st.files[t]]
          kept == SelectSeq(existingAttachments, LAMBDA a : a.title \notin removedSet)
          updatedAttachments ==
            upsertDownloaded(st.downloaded, filteredAttachments,
                             existingAttachments, filesAfter, kept)
      IN [meta |-> [pageMeta EXCEPT !.attachments = updatedAttachments],
          attFiles |-> filesAfter,
          logs |-> st.logs,
          calls |-> st.calls,
          result |-> [Returned("downloadAttachments") EXCEPT
                        !.downloaded = st.downloaded,
                        !.skippedAtts = st.skipped,
                        !.removed = removed]]

DownloadAttachments ==
  /\ pc = "idle"
  /\ IF extractPageIdFromUrl(pageUrl).thrown
     THEN InvalidUrl("downloadAttachments")
     ELSE
       \* preparePaths
       /\ cacheDirs' = TRUE
       /\ \E filter \in Filters :
            \* the failing call is one of those the call makes when none fails
            \E f \in Failures(Len(downloadAttachments(meta, attFiles, remotePage,
                                      remoteAtts, filter, 0, ReplyOk).calls)) :
            \E out \in {downloadAttachments(meta, attFiles, remotePage, remoteAtts,
                                           filter, f.at, f.reply)} :
            /\ meta' = out.meta
            /\ attFiles' = out.attFiles
            /\ logs' = out.logs
            /\ warned' = clientWarnings(f.reply)
            /\ remoteCalls' = out.calls
            /\ result' = callerGets(out.result, out.logs)
            /\ pre' = Snapshot("downloadAttachments", filter, f, NoPrev)
       /\ UNCHANGED <<remoteVars, pageFile, pc, upl, extEdit, localEdit, envSteps, fmtVars, maskVars, fsVars, pageUrl>>
\* ------------------------------------------------------------------------
\* downloadAttachments with the paths resolved.  The path of an attachment
\* file is path.join(paths.attachmentsDir, title), the title as the remote
\* gave it; path.join normalises, so the title ../meta.json names
\* paths.metaFile.  Paths are relative to the page directory.
\* ------------------------------------------------------------------------
TraversalTitle == "../meta.json"
PathTitles == AttTitles \cup {TraversalTitle}
metaFile == <<"meta.json">>
attachmentPath(title) ==
  IF title = TraversalTitle THEN <<"meta.json">> ELSE <<"attachments", title>>

\* writeJsonFile: the file holds the JSON text of the data
writeJsonFile(data) == File(<<"json", data>>)

\* readJsonFile: null when the file is absent, the parsed data when it holds
\* JSON text; what JSON.parse makes of other bytes (it throws) is Unparsable
Unparsable == [exists |-> TRUE, parses |-> FALSE]
Parses(m) == m # Unparsable
readMetaFile(file) ==
  IF ~file.exists THEN NoMeta
  ELSE IF Len(file.content) = 2 /\ file.content[1] = "json" THEN file.content[2]
  ELSE Unparsable

\* the file each title's path names
filesByTitle(m, files) ==
  [t \in PathTitles |->
     IF attachmentPath(t) = metaFile
     THEN (IF m = NoMeta THEN NoFile ELSE writeJsonFile(m))
     ELSE files[t]]

DownloadAttachmentsInDir ==
  /\ pc = "idle"
  /\ IF extractPageIdFromUrl(pageUrl).thrown
     THEN InvalidUrl("downloadAttachments")
     ELSE
       \* preparePaths
       /\ cacheDirs' = TRUE
       /\ Parses(meta)
       /\ \E filter \in Filters :
            \E dir \in {filesByTitle(meta, attFiles)} :
            \* the failing call is one of those the call makes when none fails
            \E f \in Failures(Len(downloadAttachments(meta, dir, remotePage,
                                      remoteAtts, filter, 0, ReplyOk).calls)) :
            \E out \in {downloadAttachments(meta, dir, remotePage, remoteAtts,
                                           filter, f.at, f.reply)} :
            \* writeJsonFile(paths.metaFile, nextMeta) is the last write of a
            \* call that returns; one that throws leaves what the loop wrote
            /\ meta' = IF out.result.status = "returned" THEN out.meta
                       ELSE readMetaFile(out.attFiles[TraversalTitle])
            /\ attFiles' = [t \in AttTitles |-> out.attFiles[t]]
            /\ logs' = out.logs
            /\ warned' = clientWarnings(f.reply)
            /\ remoteCalls' = out.calls
            /\ result' = callerGets(out.result, out.logs)
            /\ pre' = Snapshot("downloadAttachments", filter, f, NoPrev)
       /\ UNCHANGED <<remoteVars, pageFile, pc, upl, extEdit, localEdit, envSteps, fmtVars, maskVars, fsVars, pageUrl>>
\* a call that finds meta.json unparsable: readJsonFile throws before the
\* try block, after the `started` record was written
SyntaxError == DomainError("SyntaxError", "JSON.parse")
ReadMetaFails ==
  /\ pc = "idle"
  /\ ~extractPageIdFromUrl(pageUrl).thrown
  /\ cacheDirs' = TRUE
  /\ ~Parses(meta)
  /\ \E call \in {<<"downloadBody", "download-body">>,
                   <<"downloadAttachments", "download-attachments">>} :
       /\ result' = Thrown(call[1], SyntaxError)
       /\ logs' = <<LogEntry(call[2], "started")>>
       /\ pre' = Snapshot(call[1], NoFilter, NoFailure, NoPrev)
  /\ warned' = <<>>
  /\ remoteCalls' = <<>>
  /\ UNCHANGED <<remoteVars, meta, pageFile, attFiles, pc, upl, extEdit, localEdit, envSteps,
                 fmtVars, maskVars, fsVars, pageUrl>>
\* ------------------------------------------------------------------------
\* uploadAttachments
\* ------------------------------------------------------------------------

\* an upload loop that compares nothing
skipUploadNever(localSha, attachmentMeta) == FALSE

\* the skip test of the upload loop
skipUpload(localSha, attachmentMeta) == localSha = attachmentMeta.sha256

\* an upload loop that does not look for the file
attachmentFileAbsentIgnored(file) == FALSE

\* !(await fileExists(attachmentPath))
attachmentFileAbsent(file) == ~file.exists

\* an upload that leaves the hash of the entry as it was
uploadedEntryOldSha(attachmentMeta, updatedAttachment, data) ==
  [attachmentMeta EXCEPT
     !.id = updatedAttachment.id,
     !.version = infoVersion(updatedAttachment, attachmentMeta.version + 1)]

\* the metadata entry written for an uploaded attachment
uploadedEntry(attachmentMeta, updatedAttachment, data) ==
  [attachmentMeta EXCEPT
     !.id = updatedAttachment.id,
     !.version = infoVersion(updatedAttachment, attachmentMeta.version + 1),
     !.sha256 = computeSha256(data)]

\* an upload loop that sends the attachment again when the request failed
afterThrowRetried(items) == items

\* `throw error` in the catch block of the loop body: what is left of the
\* items for the loop to go through
afterThrow(items) == <<>>

\* for (const attachmentMeta of attachmentsToProcess) { ... }
RECURSIVE uploadLoop(_, _, _, _, _)
uploadLoop(items, files, st, failAt, reply) ==
  IF items = <<>> THEN st
  ELSE
    LET attachmentMeta == Head(items)
        file == files[attachmentMeta.title]
    IN
    IF attachmentFileAbsent(file)
    THEN [st EXCEPT !.logs = Append(@, LogEntry("error-attachment-missing", "failed")),
                    !.error = ClientError("ATTACHMENT_FILE_NOT_FOUND")]
    ELSE IF skipUpload(computeSha256(file.content), attachmentMeta)
    THEN uploadLoop(Tail(items), files,
                    [st EXCEPT !.skipped = Append(@, attachmentMeta.title)],
                    failAt, reply)
    ELSE IF Len(st.calls) + 1 = failAt
    THEN uploadLoop(afterThrow(items), files,
                    [st EXCEPT !.calls = Append(@, "uploadAttachment"),
                               !.logs = Append(@, LogEntry("error-attachment-upload", "failed")),
                               !.error = createDomainError(reply)],
                    failAt, reply)
    ELSE
      LET atts == remoteUpload(st.remoteAtts, attachmentMeta.title, file.content)
          newMeta == uploadedEntry(attachmentMeta,
                                   uploadAttachmentInfo(atts, attachmentMeta.title),
                                   file.content)
      IN uploadLoop(Tail(items), files,
                    [st EXCEPT !.calls = Append(@, "uploadAttachment"),
                               !.remoteAtts = atts,
                               !.updated = Upsert(@, newMeta),
                               !.uploaded = Append(@, attachmentMeta.title)],
                    failAt, reply)

uploadAttachments(m, files, atts, filter, failAt, reply) ==
  LET startLog == LogEntry("upload-attachments", "started") IN
  IF m = NoMeta
  THEN [meta |-> m, remoteAtts |-> atts, logs |-> <<startLog>>, calls |-> <<>>,
        result |-> Thrown("uploadAttachments", ClientError("META_NOT_FOUND"))]
  ELSE
    LET attachmentsToProcess ==
          IF hasFilterSet(filter)
          THEN SelectSeq(m.attachments, LAMBDA a : a.title \in filterSet(filter))
          ELSE m.attachments
        st == uploadLoop(attachmentsToProcess, files,
                [remoteAtts |-> atts, updated |-> m.attachments, uploaded |-> <<>>,
                 skipped |-> <<>>, calls |-> <<>>, logs |-> <<startLog>>,
                 error |-> NoError],
                failAt, reply)
    IN
    IF st.error # NoError
    THEN [meta |-> m, remoteAtts |-> st.remoteAtts, logs |-> st.logs,
          calls |-> st.calls,
          result |-> Thrown("uploadAttachments", st.error)]
    ELSE [meta |-> [m EXCEPT !.attachments = st.updated],
          remoteAtts |-> st.remoteAtts, logs |-> st.logs, calls |-> st.calls,
          result |-> [Returned("uploadAttachments") EXCEPT
                        !.uploaded = st.uploaded,
                        !.skippedAtts = st.skipped]]

VersionsInBound(seq) == \A i \in 1..Len(seq) : seq[i].version <= MaxAttVersion

UploadAttachments ==
  /\ pc = "idle"
  /\ IF extractPageIdFromUrl(pageUrl).thrown
     THEN InvalidUrl("uploadAttachments")
     ELSE
       \* preparePaths
       /\ cacheDirs' = TRUE
       /\ \E filter \in Filters :
            \* the failing call is one of those the call makes when none fails
            \E f \in Failures(Len(uploadAttachments(meta, attFiles, remoteAtts, filter,
                                                    0, ReplyOk).calls)) :
            \E out \in {uploadAttachments(meta, attFiles, remoteAtts, filter, f.at, f.reply)} :
            /\ VersionsInBound(out.remoteAtts)
            /\ out.meta # NoMeta => VersionsInBound(out.meta.attachments)
            /\ meta' = out.meta
            /\ remoteAtts' = out.remoteAtts
            /\ logs' = out.logs
            /\ warned' = clientWarnings(f.reply)
            /\ remoteCalls' = out.calls
            /\ result' = callerGets(out.result, out.logs)
            /\ pre' = Snapshot("uploadAttachments", filter, f, NoPrev)
       /\ UNCHANGED <<remotePage, pageFile, attFiles, pc, upl, extEdit, localEdit, envSteps, fmtVars, maskVars, fsVars, pageUrl>>
\* ------------------------------------------------------------------------
\* The environment of the attachment operations.
\* ------------------------------------------------------------------------
Forget ==
  /\ result' = NoResult /\ pre' = NoPre /\ logs' = <<>> /\ warned' = <<>>
  /\ remoteCalls' = <<>>

\* somebody adds an attachment on Confluence
RemoteAddAttachment ==
  /\ pc = "idle"
  /\ UserStep
  /\ \E t \in AttTitles \ Titles(remoteAtts) :
       remoteAtts' = Append(remoteAtts, [id |-> freshId(remoteAtts), title |-> t,
                                         version |-> 1, data |-> <<"d1">>])
  /\ Forget
  /\ UNCHANGED <<remotePage, meta, pageFile, attFiles, pc, upl, extEdit, localEdit, fmtVars, maskVars, fsVars, urlVars>>

\* somebody uploads a new version of an attachment on Confluence
otherData(d) == CHOOSE e \in AttData : e # d
RemoteUpdateAttachment ==
  /\ pc = "idle"
  /\ UserStep
  /\ \E i \in 1..Len(remoteAtts) :
       /\ remoteAtts[i].version < MaxAttVersion
       /\ remoteAtts' = [remoteAtts EXCEPT ![i].version = @ + 1,
                                           ![i].data = otherData(@)]
  /\ Forget
  /\ UNCHANGED <<remotePage, meta, pageFile, attFiles, pc, upl, extEdit, localEdit, fmtVars, maskVars, fsVars, urlVars>>

\* somebody deletes an attachment on Confluence and attaches the file anew:
\* the title is the same, the id is another one
RemoteReplaceAttachment ==
  /\ pc = "idle"
  /\ UserStep
  /\ \E i \in 1..Len(remoteAtts) :
       remoteAtts' = [remoteAtts EXCEPT ![i].id = freshId(remoteAtts),
                                        ![i].version = 1]
  /\ Forget
  /\ UNCHANGED <<remotePage, meta, pageFile, attFiles, pc, upl, extEdit, localEdit, fmtVars, maskVars, fsVars, urlVars>>

\* somebody deletes an attachment on Confluence
RemoteRemoveAttachment ==
  /\ pc = "idle"
  /\ UserStep
  /\ \E i \in 1..Len(remoteAtts) :
       remoteAtts' = SubSeq(remoteAtts, 1, i - 1) \o SubSeq(remoteAtts, i + 1, Len(remoteAtts))
  /\ Forget
  /\ UNCHANGED <<remotePage, meta, pageFile, attFiles, pc, upl, extEdit, localEdit, fmtVars, maskVars, fsVars, urlVars>>

\* somebody attaches a file on Confluence under a title with a parent
\* directory in it
RemoteAddTraversal ==
  /\ pc = "idle"
  /\ UserStep
  /\ TraversalTitle \notin Titles(remoteAtts)
  /\ \E i \in 0..Len(remoteAtts) :
       remoteAtts' = SubSeq(remoteAtts, 1, i)
                     \o <<[id |-> freshId(remoteAtts), title |-> TraversalTitle,
                           version |-> 1, data |-> <<"d1">>]>>
                     \o SubSeq(remoteAtts, i + 1, Len(remoteAtts))
  /\ Forget
  /\ UNCHANGED <<remotePage, meta, pageFile, attFiles, pc, upl, extEdit, localEdit, fmtVars, maskVars, fsVars, urlVars>>

\* the user writes a file into attachments/
LocalWriteAttachment ==
  /\ pc = "idle"
  /\ UserStep
  /\ \E t \in AttTitles, d \in AttData :
       /\ attFiles[t] # File(d)
       /\ attFiles' = [attFiles EXCEPT ![t] = File(d)]
  /\ Forget
  /\ UNCHANGED <<remoteVars, meta, pageFile, pc, upl, extEdit, localEdit, fmtVars, maskVars, fsVars, urlVars>>

\* the user deletes files of attachments/
LocalDeleteAttachment ==
  /\ pc = "idle"
  /\ UserStep
  /\ \E gone \in (SUBSET {t \in AttTitles : attFiles[t].exists}) \ {{}} :
       attFiles' = [t \in AttTitles |-> IF t \in gone THEN NoFile ELSE attFiles[t]]
  /\ Forget
  /\ UNCHANGED <<remoteVars, meta, pageFile, pc, upl, extEdit, localEdit, fmtVars, maskVars, fsVars, urlVars>>

\* the caller turns to another URL for the calls that follow
GiveUrl ==
  /\ pc = "idle"
  /\ \E url \in Urls \ {pageUrl} : pageUrl' = url
  /\ Forget
  /\ UNCHANGED <<remoteVars, meta, pageFile, attFiles, pc, upl, extEdit, localEdit,
                 cacheDirs, envSteps, fmtVars, maskVars, fsVars>>

\* ------------------------------------------------------------------------
\* The formatter on its own: a well-formed document is expanded, then
\* collapsed.
\* ------------------------------------------------------------------------

\* bound of the generated documents: how many top-level blocks
MaxBlocks == 2

Wrap(open, inner, close) == {<<open>> \o c \o <<close>> : c \in inner}

Paragraphs == Wrap("<p>", {<<"x">>, <<"<b>", "x", "</b>", SP, "y">>}, "</p>")
Lists == Wrap("<ul>", {<<"<li>", "x", "</li>", "<li a>", "<p>", "y", "</p>", "</li>">>},
              "</ul>")
CellX == <<"<td>", "x", "</td>">>
CellP == <<"<td>", "<p>", "x", "</p>", "</td>">>
CellH == <<"<th a>", "x", "</th>">>
CellL == <<"<td>", "<ul>", "<li>", "x", "</li>", "</ul>", "</td>">>
\* a cell that holds a table and, after it, text
CellN == <<"<td>", "<table>", "<tbody>", "<tr>">> \o CellX
         \o <<"</tr>", "</tbody>", "</table>", "y", "</td>">>
RowX == <<"<tr>">> \o CellX \o <<"</tr>">>
RowH == <<"<tr>">> \o CellH \o <<"</tr>">>
Rows == Wrap("<tr>", {CellP \o CellH, CellL, CellN, <<"<td>", "</td>">>}, "</tr>")
        \cup {RowX, RowX \o RowX}
Sections ==
  Wrap("<tbody>", Rows, "</tbody>")
  \cup {<<"<thead>">> \o RowH \o <<"</thead>", "<tbody>">> \o RowX \o <<"</tbody>">>,
        <<"<colgroup>", "</colgroup>", "<tbody>">> \o RowX \o <<"</tbody>">>}
Tables == Wrap("<table>", Sections, "</table>")
          \cup Wrap("<table a>", {<<"<tbody>", "</tbody>">>}, "</table>")
Blocks == Paragraphs \cup Lists \cup Tables
          \cup Wrap("<h1>", {<<"x">>}, "</h1>")
          \cup Wrap("<div a>", {<<"<p>", "x", "</p>">>}, "</div>")
\* between two blocks: nothing, or a line break that is part of the document
Separators == {<<>>, <<NL>>}
RECURSIVE DocsUpTo(_)
DocsUpTo(n) ==
  IF n = 1 THEN Blocks
  ELSE LET shorter == DocsUpTo(n - 1)
       IN shorter \cup {d \o sep \o b : d \in shorter, sep \in Separators, b \in Blocks}
Docs == DocsUpTo(MaxBlocks)

Expand ==
  /\ fpc = "input"
  /\ formatted' = formatTableXhtml(markup)
  /\ fpc' = "formatted"
  /\ UNCHANGED <<remoteVars, meta, pageFile, attFiles, logs, warned, remoteCalls, result,
                 pre, pc, upl, extEdit, localEdit, envSteps, markup, collapsed, maskVars, fsVars, urlVars>>

Collapse ==
  /\ fpc = "formatted"
  /\ collapsed' = unformatTableXhtml(formatted)
  /\ fpc' = "collapsed"
  /\ UNCHANGED <<remoteVars, meta, pageFile, attFiles, logs, warned, remoteCalls, result,
                 pre, pc, upl, extEdit, localEdit, envSteps, markup, formatted, maskVars, fsVars, urlVars>>

\* ------------------------------------------------------------------------
\* writeLog on its own: an entry is masked and written.
\*
\* A JSON value is [t, s, kids]: a string (t = "str", s its text), an object
\* (t = "obj", kids its entries [k, v] in insertion order) or an array
\* (t = "arr", kids its elements, k empty).  A key is the sequence of its
\* characters.
\* ------------------------------------------------------------------------
Str(text) == [t |-> "str", s |-> text, kids |-> <<>>]
Obj(entries) == [t |-> "obj", s |-> "", kids |-> entries]
Arr(elements) ==
  [t |-> "arr", s |-> "",
   kids |-> [i \in 1..Len(elements) |-> [k |-> <<>>, v |-> elements[i]]]]
Pair(key, value) == [k |-> key, v |-> value]

\* String.prototype.toLowerCase, character by character
UpperCase == <<"A", "B", "C", "D", "E", "F", "G", "H", "I", "J", "K", "L", "M",
               "N", "O", "P", "Q", "R", "S", "T", "U", "V", "W", "X", "Y", "Z">>
LowerCase == <<"a", "b", "c", "d", "e", "f", "g", "h", "i", "j", "k", "l", "m",
               "n", "o", "p", "q", "r", "s", "t", "u", "v", "w", "x", "y", "z">>
toLowerCase(key) ==
  [i \in 1..Len(key) |->
     IF \E n \in 1..Len(UpperCase) : UpperCase[n] = key[i]
     THEN LowerCase[CHOOSE n \in 1..Len(UpperCase) : UpperCase[n] = key[i]]
     ELSE key[i]]

\* String.prototype.includes
includes(text, part) ==
  \E i \in 0..(Len(text) - Len(part)) : SubSeq(text, i + 1, i + Len(part)) = part

sensitiveKeys ==
  {<<"t", "o", "k", "e", "n">>,
   <<"p", "a", "s", "s", "w", "o", "r", "d">>,
   <<"a", "p", "i", "t", "o", "k", "e", "n">>,
   <<"a", "p", "i", "_", "t", "o", "k", "e", "n">>,
   <<"e", "m", "a", "i", "l">>}
isSensitive(key) ==
  \E sensitive \in sensitiveKeys : includes(toLowerCase(key), sensitive)

Masked == Str("***MASKED***")

\* maskSensitive: the entries of an object, one by one
RECURSIVE maskSensitive(_)
maskSensitive(value) ==
  [value EXCEPT !.kids =
     [i \in 1..Len(value.kids) |->
        IF isSensitive(value.kids[i].k)
        THEN Pair(value.kids[i].k, Masked)
        ELSE IF value.kids[i].v.t = "obj"
        THEN Pair(value.kids[i].k, maskSensitive(value.kids[i].v))
        ELSE value.kids[i]]]

\* { ...sanitizedEntry, timestamp }: the object that JSON.stringify turns
\* into the line
TimestampKey == <<"t", "i", "m", "e", "s", "t", "a", "m", "p">>
withTimestamp(object) ==
  Obj(SelectSeq(object.kids, LAMBDA e : e.k # TimestampKey)
      \o <<Pair(TimestampKey, Str("now"))>>)
writeLog(e) == withTimestamp(maskSensitive(e))

\* the entries handed to writeLog: objects nested up to MaxDepth levels
\* below the entry's own fields
MaxDepth == 2
Leafs == {Str("v1"), Str("v2")}
Keys == {<<"a", "p", "i", "T", "o", "k", "e", "n">>, <<"E", "m", "a", "i", "l">>,
         <<"e", "r", "r", "o", "r">>, <<"i", "d">>}
RECURSIVE JsonValues(_)
JsonValues(depth) ==
  IF depth = 0 THEN Leafs
  ELSE LET inner == JsonValues(depth - 1)
       IN inner \cup {Obj(<<Pair(k, v)>>) : k \in Keys, v \in inner}
                \cup {Arr(<<v>>) : v \in inner}
Entries == {Obj(<<Pair(k, v)>>) : k \in Keys, v \in JsonValues(MaxDepth)}

WriteLog ==
  /\ mpc = "input"
  /\ logLine' = writeLog(logArg)
  /\ mpc' = "written"
  /\ UNCHANGED <<remoteVars, meta, pageFile, attFiles, logs, warned, remoteCalls, result,
                 pre, pc, upl, extEdit, localEdit, envSteps, fmtVars, logArg, fsVars, urlVars>>

\* ------------------------------------------------------------------------
\* The file helpers on their own: fileExists, readJsonFile, safeUnlink and
\* listFiles, each around one call of fs.
\* ------------------------------------------------------------------------

\* values
Undefined == [t |-> "undefined", s |-> "", kids |-> <<>>]
Null == [t |-> "null", s |-> "", kids |-> <<>>]
Bool(b) == [t |-> "boolean", s |-> IF b THEN "true" ELSE "false", kids |-> <<>>]
\* the text of a file: JSON text of a value, or something else
JsonText(value) == [t |-> "text", s |-> "json", kids |-> <<Pair(<<>>, value)>>]
InvalidText == [t |-> "text", s |-> "invalid json {", kids |-> <<>>]

\* what a promise rejects with: falsy or not, its typeof, whether it has a
\* property `code` and that property
ThrownValue(falsy, type, name, hasCode, code) ==
  [falsy |-> falsy, type |-> type, name |-> name, hasCode |-> hasCode, code |-> code]
NoThrow == ThrownValue(TRUE, "undefined", "", FALSE, "")
ErrnoError(code) == ThrownValue(FALSE, "object", "Error", TRUE, code)
PlainError == ThrownValue(FALSE, "object", "Error", FALSE, "")
JsonSyntaxError == ThrownValue(FALSE, "object", "SyntaxError", FALSE, "")
ThrownString(text) == ThrownValue(FALSE, "string", "", FALSE, text)
ThrownNull == ThrownValue(TRUE, "object", "", FALSE, "")

\* how a promise settles
Resolved(value) == [resolved |-> TRUE, value |-> value, error |-> NoThrow]
Rejected(error) == [resolved |-> FALSE, value |-> Undefined, error |-> error]

\* a catch block that maps every error with a code
hasAnyCode(error) == ~error.falsy /\ error.type = "object" /\ error.hasCode

\* error && typeof error === "object" && "code" in error && code === "ENOENT"
isENOENT(error) ==
  ~error.falsy /\ error.type = "object" /\ error.hasCode /\ error.code = "ENOENT"

\* JSON.parse
JSONparse(text) ==
  IF text.s = "json" THEN Resolved(text.kids[1].v) ELSE Rejected(JsonSyntaxError)

\* fileExists, given how fs.access settles
fileExists(access) ==
  IF access.resolved THEN Resolved(Bool(TRUE))
  ELSE IF isENOENT(access.error) THEN Resolved(Bool(FALSE))
  ELSE Rejected(access.error)

\* readJsonFile, given how fs.readFile settles: JSON.parse is inside the
\* same try block
readJsonFile(readFile) ==
  LET parsed == IF readFile.resolved THEN JSONparse(readFile.value) ELSE readFile
  IN IF parsed.resolved THEN parsed
     ELSE IF isENOENT(parsed.error) THEN Resolved(Null)
     ELSE Rejected(parsed.error)

\* safeUnlink, given how fs.unlink settles
safeUnlink(unlink) ==
  IF unlink.resolved THEN Resolved(Undefined)
  ELSE IF isENOENT(unlink.error) THEN Resolved(Undefined)
  ELSE Rejected(unlink.error)

\* listFiles, given how fs.readdir settles
listFiles(readdir) ==
  IF readdir.resolved THEN Resolved(readdir.value)
  ELSE IF isENOENT(readdir.error) THEN Resolved(Arr(<<>>))
  ELSE Rejected(readdir.error)

\* the calls of a run
ErrnoCodes == {"ENOENT", "EACCES", "EPERM", "EISDIR", "ENOTDIR", "EMFILE", "EIO",
               "EBUSY"}
Rejections ==
  {Rejected(ErrnoError(c)) : c \in ErrnoCodes}
    \cup {Rejected(PlainError), Rejected(ErrnoError("undefined")),
          Rejected(ThrownString("ENOENT")), Rejected(ThrownNull)}
FileTexts ==
  {JsonText(v) : v \in {Null, Obj(<<>>), Obj(<<Pair(<<"i", "d">>, Str("v1"))>>)}}
    \cup {InvalidText}
Listings == {Arr(<<>>), Arr(<<Str("a.png")>>), Arr(<<Str("a.png"), Str("b.png")>>)}
FsOutcomes(helper) ==
  Rejections \cup
    CASE helper = "fileExists" -> {Resolved(Undefined)}
      [] helper = "readJsonFile" -> {Resolved(x) : x \in FileTexts}
      [] helper = "safeUnlink" -> {Resolved(Undefined)}
      [] helper = "listFiles" -> {Resolved(l) : l \in Listings}
Helpers == {"fileExists", "readJsonFile", "safeUnlink", "listFiles"}
HelperCalls == {[helper |-> h, fs |-> o] : h \in Helpers, o \in UNION {FsOutcomes(g) : g \in Helpers}}

CallHelper ==
  /\ hpc = "input"
  /\ helperResult' =
       CASE helperCall.helper = "fileExists" -> fileExists(helperCall.fs)
         [] helperCall.helper = "readJsonFile" -> readJsonFile(helperCall.fs)
         [] helperCall.helper = "safeUnlink" -> safeUnlink(helperCall.fs)
         [] helperCall.helper = "listFiles" -> listFiles(helperCall.fs)
  /\ hpc' = "settled"
  /\ UNCHANGED <<remoteVars, meta, pageFile, attFiles, logs, warned, remoteCalls, result,
                 pre, pc, upl, extEdit, localEdit, envSteps, fmtVars, maskVars, helperCall, urlVars>>

\* ------------------------------------------------------------------------
\* Specifications.
\* ------------------------------------------------------------------------
InitCache ==
  /\ meta = NoMeta
  /\ pageFile = NoFile
  /\ attFiles = [t \in AttTitles |-> NoFile]
  /\ logs = <<>>
  /\ warned = <<>>
  /\ remoteCalls = <<>>
  /\ result = NoResult
  /\ pre = NoPre
  /\ pc = "idle"
  /\ upl = NoUpl
  /\ extEdit = FALSE
  /\ localEdit = FALSE
  /\ cacheDirs = FALSE
  /\ envSteps = 0

FormatterOff ==
  /\ markup = <<>> /\ formatted = <<>> /\ collapsed = <<>> /\ fpc = "off"

MaskOff ==
  /\ logArg = Obj(<<>>) /\ logLine = Obj(<<>>) /\ mpc = "off"

\* the calls are given the URL of the page
UrlOfPage == pageUrl = PageUrl

HelperOff ==
  /\ helperCall = [helper |-> "none", fs |-> Resolved(Undefined)]
  /\ helperResult = Resolved(Undefined)
  /\ hpc = "off"

\* a fresh cache directory; the page exists on Confluence with one attachment
Init ==
  /\ InitCache
  /\ FormatterOff
  /\ MaskOff
  /\ HelperOff
  /\ UrlOfPage
  /\ \E b \in Bodies : remotePage = [version |-> 1, title |-> "Title", body |-> b]
  /\ remoteAtts = <<[id |-> "att1", title |-> "a.png", version |-> 1,
                     data |-> <<"d1">>]>>

\* a fresh cache directory; the page exists on Confluence with two attachments
InitAtt ==
  /\ InitCache
  /\ FormatterOff
  /\ MaskOff
  /\ HelperOff
  /\ UrlOfPage
  /\ remotePage = [version |-> 1, title |-> "Title", body |-> BodyP]
  /\ remoteAtts = <<[id |-> "att1", title |-> "a.png", version |-> 1,
                     data |-> <<"d1">>],
                    [id |-> "att2", title |-> "b.png", version |-> 1,
                     data |-> <<"d1">>]>>

InitFmt ==
  /\ InitCache
  /\ MaskOff
  /\ HelperOff
  /\ UrlOfPage
  /\ remotePage = [version |-> 1, title |-> "Title", body |-> BodyP]
  /\ remoteAtts = <<>>
  /\ markup \in Docs
  /\ formatted = <<>>
  /\ collapsed = <<>>
  /\ fpc = "input"

\* the body calls, the page edited on both sides
Next ==
  \/ DownloadBody
  \/ UploadBodyBegin
  \/ UploadBodyUpdate
  \/ ExternalEdit
  \/ LocalEdit
  \/ LocalDelete

\* the attachment calls, the attachments edited on both sides
NextAtt ==
  \/ DownloadAttachments
  \/ UploadAttachments
  \/ RemoteAddAttachment
  \/ RemoteUpdateAttachment
  \/ RemoteReplaceAttachment
  \/ RemoteRemoveAttachment
  \/ LocalWriteAttachment
  \/ LocalDeleteAttachment

NextFmt == Expand \/ Collapse

InitLog ==
  /\ InitCache
  /\ FormatterOff
  /\ HelperOff
  /\ UrlOfPage
  /\ remotePage = [version |-> 1, title |-> "Title", body |-> BodyP]
  /\ remoteAtts = <<>>
  /\ logArg \in Entries
  /\ logLine = Obj(<<>>)
  /\ mpc = "input"

NextLog == WriteLog

InitFs ==
  /\ InitCache
  /\ UrlOfPage
  /\ FormatterOff
  /\ MaskOff
  /\ remotePage = [version |-> 1, title |-> "Title", body |-> BodyP]
  /\ remoteAtts = <<>>
  /\ helperCall \in {c \in HelperCalls : c.fs \in FsOutcomes(c.helper)}
  /\ helperResult = Resolved(Undefined)
  /\ hpc = "input"

NextFs == CallHelper

\* a fresh cache directory; the calls are given any URL
InitUrl ==
  /\ InitCache
  /\ FormatterOff
  /\ MaskOff
  /\ HelperOff
  /\ pageUrl \in Urls
  /\ \E b \in Bodies : remotePage = [version |-> 1, title |-> "Title", body |-> b]
  /\ remoteAtts = <<[id |-> "att1", title |-> "a.png", version |-> 1,
                     data |-> <<"d1">>]>>

\* the four sync calls, the URL they are given changing between calls
NextUrl ==
  \/ DownloadBody
  \/ UploadBodyBegin
  \/ UploadBodyUpdate
  \/ DownloadAttachments
  \/ UploadAttachments
  \/ GiveUrl

\* the download calls with the paths of the files resolved, the remote
\* holding attachments of any title
NextDir ==
  \/ Parses(meta) /\ DownloadBody
  \/ DownloadAttachmentsInDir
  \/ ReadMetaFails
  \/ RemoteAddTraversal
  \/ RemoteRemoveAttachment
  \/ LocalDeleteAttachment

\* the four sync calls on one cache directory
NextSync ==
  \/ DownloadBody
  \/ UploadBodyBegin
  \/ UploadBodyUpdate
  \/ DownloadAttachments
  \/ UploadAttachments
  \/ LocalEdit
  \/ LocalWriteAttachment

Spec == Init /\ [][Next]_vars
SpecAtt == InitAtt /\ [][NextAtt]_vars
SpecFmt == InitFmt /\ [][NextFmt]_vars
SpecLog == InitLog /\ [][NextLog]_vars
SpecDir == Init /\ [][NextDir]_vars
SpecFs == InitFs /\ [][NextFs]_vars
SpecSync == InitAtt /\ [][NextSync]_vars
SpecUrl == InitUrl /\ [][NextUrl]_vars


\* ------------------------------------------------------------------------
\* Properties.
\* ------------------------------------------------------------------------
Range(seq) == {seq[i] : i \in 1..Len(seq)}

\* the call that last started is `op`, and it has ended
Ended(op) == pc = "idle" /\ pre.exists /\ pre.op = op /\ result.op = op
Succeeded(op) == Ended(op) /\ result.status = "returned"

\* the call that last started came right after a successful call of `op`,
\* nothing having been edited on either side in between
RightAfter(op) == pre.prev.op = op /\ pre.prev.status = "returned"

\* a title is a candidate of a call with that filter
Selected(title, filter) ==
  ~hasFilterSet(filter) \/ title \in filterSet(filter)

\* C1. No spurious upload: an uploadBody that follows a successful
\* downloadBody which wrote the body file, with no edit of the file and no
\* change of the remote page in between, returns pageUpdated = false and has
\* not called updatePage.
NoSpuriousUpload ==
  (Ended("uploadBody") /\ RightAfter("downloadBody") /\ ~pre.prev.skipped
     /\ pre.failure.at = 0)
  => /\ result.status = "returned"
     /\ ~result.pageUpdated
     /\ "updatePage" \notin Range(remoteCalls)

\* C2. Round-trip law: collapsing the expansion of a well-formed document
\* gives back the document, token for token.
RoundTrip == fpc = "collapsed" => collapsed = markup

\* C3. Conflict detection: when the page version that uploadBody fetched
\* differs from the version in meta.json, the call fails with
\* VERSION_CONFLICT, updatePage is not called, and meta.json and the body
\* file are what they were.
ConflictDetected ==
  (pre.exists /\ pre.op = "uploadBody" /\ pre.failure.at # 1
     /\ pre.meta # NoMeta /\ pre.pageFile.exists
     /\ pre.remotePage.version # pre.meta.version)
  => /\ pc = "idle"
     /\ result = Thrown("uploadBody", ClientError("VERSION_CONFLICT"))
     /\ remoteCalls = <<"getPage">>
     /\ meta = pre.meta
     /\ pageFile = pre.pageFile

\* an upload has met a remote version other than the recorded one
ConflictMet ==
  /\ Ended("uploadBody")
  /\ pre.meta # NoMeta /\ pre.pageFile.exists
  /\ pre.failure.at = 0
  /\ pre.remotePage.version > pre.meta.version
  /\ result.error = ClientError("VERSION_CONFLICT")

\* C4. Idempotent download: a downloadBody that follows a successful
\* downloadBody, nothing having changed on either side in between, is
\* skipped and leaves the body file as it was.
SecondDownloadSkipped ==
  (Ended("downloadBody") /\ RightAfter("downloadBody") /\ pre.failure.at = 0)
  => /\ result.status = "returned"
     /\ result.skipped
     /\ pageFile = pre.pageFile

\* a second download of a page with a table has been skipped
DownloadedTwice ==
  /\ Succeeded("downloadBody") /\ RightAfter("downloadBody")
  /\ ~pre.prev.skipped
  /\ result.skipped
  /\ remotePage.body = BodyT
  /\ pageFile = File(formatTableXhtml(BodyT))

\* C5. Body-hash invariant: after a successful downloadBody that wrote the
\* body file, and after a successful uploadBody, storageSha256 of meta.json
\* is the hash of the formatted text in the body file.
BodyHashOfFormattedText ==
  ((Succeeded("downloadBody") /\ ~result.skipped) \/ Succeeded("uploadBody"))
  => /\ pageFile.exists
     /\ meta.storageSha256 = computeSha256(pageFile.content)

\* the attachments tracked before the call whose title the listing lacks
Orphans ==
  IF pre.meta = NoMeta THEN {}
  ELSE {a \in Range(pre.meta.attachments) : a.title \notin Titles(pre.remoteAtts)}

\* C6. Garbage-collection scope: a successful downloadAttachments without a
\* filter (no title list, or an empty one) leaves neither a metadata entry
\* nor a file for any tracked attachment that the remote listing lacks; a
\* successful downloadAttachments with a filter (a title list that is not
\* empty) removes no metadata entry and deletes no attachment file.
GarbageCollectionScope ==
  Succeeded("downloadAttachments")
  => IF pre.filter.given /\ pre.filter.includeTitles # <<>>
     THEN /\ result.removed = <<>>
          /\ pre.meta # NoMeta =>
               \A a \in Range(pre.meta.attachments) : a.title \in Titles(meta.attachments)
          /\ \A t \in AttTitles : pre.attFiles[t].exists => attFiles[t].exists
     ELSE \A a \in Orphans :
            /\ a.title \notin Titles(meta.attachments)
            /\ ~attFiles[a.title].exists
            /\ a.title \in Range(result.removed)

\* a filtered download has met a tracked attachment, with its file, that
\* the remote listing lacks
FilteredDownloadKeepsOrphan ==
  /\ Succeeded("downloadAttachments")
  /\ pre.filter.given /\ pre.filter.includeTitles # <<>>
  /\ \E a \in Orphans : pre.attFiles[a.title].exists /\ attFiles[a.title].exists

\* C7. An external edit is never silently overwritten: whenever the page
\* holds an external edit that no download has fetched yet, a step of
\* uploadBody (up to the version check, or the updatePage that follows it)
\* leaves the remote page as the external editor left it, and the call, when
\* the step ends it, ends with an error.
ExternalEditKept ==
  [][(extEdit /\ (UploadBodyBegin \/ UploadBodyUpdate))
     => /\ remotePage' = remotePage
        /\ pc' = "idle" => result'.status = "thrown"]_vars

\* an external edit has landed between the version check and updatePage,
\* and the upload has failed on it
EditLandedBeforeUpdate ==
  /\ Ended("uploadBody")
  /\ extEdit
  /\ pre.failure.at = 0
  /\ pre.meta # NoMeta
  /\ pre.remotePage.version = pre.meta.version
  /\ remotePage.version = pre.remotePage.version + 1
  /\ remoteCalls = <<"getPage", "updatePage">>
  /\ result.status = "thrown"

\* C8. Attachment download decision: in a successful downloadAttachments a
\* candidate is skipped exactly when meta.json tracks its title at the
\* remote attachment's current version and its file exists; otherwise it is
\* downloaded and its bytes are written.
DownloadDecision ==
  Succeeded("downloadAttachments")
  => \A a \in Range(pre.remoteAtts) :
       Selected(a.title, pre.filter)
       => LET upToDate ==
                /\ pre.meta # NoMeta
                /\ \E e \in Range(pre.meta.attachments) :
                     e.title = a.title /\ e.version = a.version
                /\ pre.attFiles[a.title].exists
          IN IF upToDate
             THEN /\ a.title \in Range(result.skippedAtts)
                  /\ a.title \notin Range(result.downloaded)
             ELSE /\ a.title \in Range(result.downloaded)
                  /\ a.title \notin Range(result.skippedAtts)
                  /\ attFiles[a.title] = File(a.data)

\* C9. Attachment dedup by hash: in a successful uploadAttachments every
\* processed attachment whose file hashes to the sha256 of its metadata
\* entry is in `skipped` and not in `uploaded`, every other one is in
\* `uploaded`, and uploadAttachment has been called once per uploaded
\* attachment and not otherwise.
UploadDedupByHash ==
  Succeeded("uploadAttachments")
  => /\ \A e \in Range(pre.meta.attachments) :
          Selected(e.title, pre.filter)
          => IF computeSha256(pre.attFiles[e.title].content) = e.sha256
             THEN /\ e.title \in Range(result.skippedAtts)
                  /\ e.title \notin Range(result.uploaded)
                  /\ \A r \in Range(remoteAtts) :
                       r.title = e.title => r \in Range(pre.remoteAtts)
             ELSE /\ e.title \in Range(result.uploaded)
                  /\ e.title \notin Range(result.skippedAtts)
                  /\ \E r \in Range(remoteAtts) :
                       r.title = e.title /\ r.data = pre.attFiles[e.title].content
     /\ remoteCalls = [i \in 1..Len(result.uploaded) |-> "uploadAttachment"]

\* an upload has sent one attachment and skipped another
UploadedOneSkippedOne ==
  /\ Succeeded("uploadAttachments")
  /\ result.uploaded # <<>>
  /\ result.skippedAtts # <<>>

\* C10. Every failure is logged: when a sync call has thrown, a record with
\* status `failed` is in the logs it wrote, and the caller holds the error
\* that was raised.
FailureLogged ==
  (pc = "idle" /\ result.status = "thrown")
  => \E i \in 1..Len(logs) : logs[i].status = "failed"

\* C11. uploadBody preconditions: without meta.json the call fails with
\* META_NOT_FOUND, with meta.json but without the body file it fails with
\* PAGE_FILE_NOT_FOUND; either way it makes no remote call and meta.json is
\* what it was.
UploadPreconditions ==
  (pre.exists /\ pre.op = "uploadBody"
     /\ (pre.meta = NoMeta \/ ~pre.pageFile.exists))
  => /\ pc = "idle"
     /\ result = Thrown("uploadBody",
                         ClientError(IF pre.meta = NoMeta THEN "META_NOT_FOUND"
                                     ELSE "PAGE_FILE_NOT_FOUND"))
     /\ remoteCalls = <<>>
     /\ meta = pre.meta

\* an upload has found meta.json but no body file
BodyFileMissing ==
  /\ Ended("uploadBody")
  /\ pre.meta # NoMeta
  /\ ~pre.pageFile.exists
  /\ result.error = ClientError("PAGE_FILE_NOT_FOUND")

\* C12. No stale metadata on a failed body download: when downloadBody has
\* thrown, at getPage or at the write of the body file, meta.json is what it
\* was before the call; and when the call has changed meta.json, it has
\* returned, and unless it skipped, the body file holds the formatted text
\* of the fetched body.
NoStaleMetaOnFailedDownload ==
  Ended("downloadBody")
  => /\ result.status = "thrown" => meta = pre.meta
     /\ meta # pre.meta
          => /\ result.status = "returned"
             /\ ~result.skipped
                  => pageFile = File(formatTableXhtml(pre.remotePage.body))

\* the write of the body file has failed in a download that had a newer
\* page to record
BodyWriteFailed ==
  /\ Ended("downloadBody")
  /\ pre.failure.at = 2
  /\ result = Thrown("downloadBody", writeTextFileError)
  /\ pre.meta # NoMeta
  /\ pre.remotePage.version > pre.meta.version
  /\ pageFile # pre.pageFile

\* the candidates of the last downloadAttachments call that it could not
\* skip, in listing order: not tracked, or their file absent
ToFetch ==
  SelectSeq(pre.remoteAtts,
            LAMBDA a : /\ Selected(a.title, pre.filter)
                       /\ ~(/\ pre.meta # NoMeta
                             /\ a.title \in Titles(pre.meta.attachments)
                             /\ pre.attFiles[a.title].exists))
\* how many times the last call invoked downloadAttachment
Fetches == Cardinality({i \in 1..Len(remoteCalls) : remoteCalls[i] = "downloadAttachment"})

TitlesUnique ==
  meta # NoMeta
  => \A i, j \in 1..Len(meta.attachments) :
       meta.attachments[i].title = meta.attachments[j].title => i = j

\* a call has replaced the entry of a title by one with another remote id
EntryReplacedUnderNewId ==
  /\ pc = "idle" /\ pre.exists /\ result.status = "returned"
  /\ pre.meta # NoMeta
  /\ \E e \in Range(pre.meta.attachments), f \in Range(meta.attachments) :
       e.title = f.title /\ e.id # f.id

\* C15. uploadAttachments uploads tracked attachments only: whatever the
\* call has sent to the remote, and whatever it reports as uploaded, has an
\* entry in meta.json, so a file of attachments/ without an entry is never
\* uploaded; and when the file of a tracked attachment selected for
\* processing is missing, the call has thrown, with ATTACHMENT_FILE_NOT_FOUND
\* unless an upload request before that attachment failed.
UploadOnlyTracked ==
  (Ended("uploadAttachments") /\ pre.meta # NoMeta)
  => /\ Range(result.uploaded) \subseteq Titles(pre.meta.attachments)
     /\ \A r \in Range(remoteAtts) \ Range(pre.remoteAtts) :
          r.title \in Titles(pre.meta.attachments)
     /\ (\E e \in Range(pre.meta.attachments) :
           Selected(e.title, pre.filter) /\ ~pre.attFiles[e.title].exists)
        => /\ result.status = "thrown"
           /\ pre.failure.at = 0
                => result.error = ClientError("ATTACHMENT_FILE_NOT_FOUND")

\* an upload has failed on the missing file of a tracked attachment while a
\* file without an entry was in attachments/
TrackedFileMissing ==
  /\ Ended("uploadAttachments")
  /\ result.error = ClientError("ATTACHMENT_FILE_NOT_FOUND")
  /\ remoteAtts = pre.remoteAtts
  /\ \E t \in AttTitles \ Titles(pre.meta.attachments) : pre.attFiles[t].exists

\* C16. Log events per call: the log records of a call that has ended begin
\* with a `started` record and end with a terminal record, `completed` when
\* the call returned and `failed` when it threw.
LogEventsPerCall ==
  (pc = "idle" /\ pre.exists)
  => /\ logs # <<>>
     /\ logs[1].status = "started"
     /\ logs[Len(logs)].status =
          IF result.status = "returned" THEN "completed" ELSE "failed"

\* a call has returned
CallReturned == pc = "idle" /\ pre.exists /\ result.status = "returned"

\* no value is left, at any depth, under a key of an object that contains
\* token, password, apitoken, api_token or email, whatever the case
RECURSIVE Redacted(_)
Redacted(value) ==
  \A i \in 1..Len(value.kids) :
    IF value.t = "obj" /\ isSensitive(value.kids[i].k)
    THEN value.kids[i].v = Masked
    ELSE Redacted(value.kids[i].v)

\* C17. Credential masking: in the object that writeLog writes, the value
\* under every key that contains token, password, apitoken, api_token or
\* email is the marker ***MASKED***, at every depth, inside arrays too.
CredentialsMasked == mpc = "written" => Redacted(logLine)

\* an entry with a credential directly under a field has been written
CredentialWritten ==
  /\ mpc = "written"
  /\ ~Redacted(logArg)
  /\ Redacted(logLine)

\* C18. Cancellation: when a remote call of a body operation has been
\* aborted, the operation has thrown the abort error itself, meta.json is
\* what it was, and the client has logged the abort with the reason
\* `timeout` when the timeout fired and `cancelled` when the caller's signal
\* fired.
CancellationDistinct ==
  (pc = "idle" /\ pre.exists /\ pre.failure.reply.kind = "abort")
  => /\ result = Thrown(pre.op, AbortError)
     /\ meta = pre.meta
     /\ warned = <<IF pre.failure.reply.fired = "timeout" THEN "timeout"
                   ELSE "cancelled">>

\* the caller's signal has aborted updatePage
UpdateCancelled ==
  /\ Ended("uploadBody")
  /\ pre.failure.at = 2
  /\ pre.failure.reply.kind = "abort"
  /\ pre.failure.reply.fired = "signal"
  /\ warned = <<"cancelled">>

\* C19. Version invariant: after a successful downloadBody and after a
\* successful uploadBody, skipped or not, the version in meta.json is the
\* version of the remote page as of that call: the one fetched, or the one
\* updatePage returned.
VersionRecorded ==
  (Succeeded("downloadBody") \/ Succeeded("uploadBody"))
  => /\ meta.version = remotePage.version
     /\ meta.version = IF result.pageUpdated THEN pre.remotePage.version + 1
                       ELSE pre.remotePage.version

\* an upload has changed the page and recorded the version it got back
UploadRecordedNewVersion ==
  /\ Succeeded("uploadBody")
  /\ result.pageUpdated
  /\ meta.version = pre.meta.version + 1
  /\ remotePage.version = meta.version

\* C20. A failure comes with its log file: when a sync call has thrown, what
\* the caller holds names the log file in which the failure is recorded.
FailureCarriesLogPath ==
  (pc = "idle" /\ result.status = "thrown")
  => \E i \in 1..Len(logs) :
       /\ logs[i].status = "failed"
       /\ logs[i].file \in Range(result.logFiles)

\* a call has thrown after writing the record of its failure
FailureRecorded ==
  /\ pc = "idle"
  /\ result.status = "thrown"
  /\ logs[Len(logs)].status = "failed"

\* two errors a caller can tell apart by their class or by their code
Distinguishable(e1, e2) == e1.class # e2.class \/ errorCode(e1) # errorCode(e2)

\* C21. A page update that the remote rejects as a concurrent edit (409)
\* makes updatePage throw an error that differs, in class or in code, from
\* the errors it throws for a server error and for an unknown failure.
VersionConflictClass ==
  (Ended("uploadBody") /\ remoteCalls = <<"getPage", "updatePage">>
     /\ pre.failure.at = 0 /\ result.status = "thrown")
  => /\ Distinguishable(result.error, updatePageError(Http(503)))
     /\ Distinguishable(result.error, updatePageError(Http(418)))
     /\ Distinguishable(result.error, updatePageUnexpected)

\* the remote has answered an update with 409
UpdateAnswered409 ==
  /\ Ended("uploadBody")
  /\ remoteCalls = <<"getPage", "updatePage">>
  /\ pre.failure.at = 0
  /\ result = Thrown("uploadBody", updatePageError(Http(409)))

\* C22. First download: a downloadBody that finds no meta.json is not
\* skipped, and when it has returned, the body file holds the expanded form
\* of the remote body and meta.json exists with the remote version and an
\* empty attachments list.
FirstDownload ==
  (Ended("downloadBody") /\ pre.meta = NoMeta)
  => /\ ~result.skipped
     /\ result.status = "returned"
          => /\ pageFile = File(formatTableXhtml(pre.remotePage.body))
             /\ meta # NoMeta
             /\ meta.version = pre.remotePage.version
             /\ meta.attachments = <<>>

\* a first download of a page with a table has returned
FirstDownloadDone ==
  /\ Succeeded("downloadBody")
  /\ pre.meta = NoMeta
  /\ pre.remotePage.body = BodyT
  /\ pageFile.content # BodyT

\* meta.json exists and holds a metadata record
IsMeta(m) == m # NoMeta /\ Parses(m)

\* C23. Metadata is never deleted: a sync call that found meta.json leaves
\* it in place, holding a metadata record, whether the call has returned or
\* thrown.
MetadataNeverDeleted ==
  (pc = "idle" /\ pre.exists /\ IsMeta(pre.meta)) => IsMeta(meta)

\* a download has fetched an attachment whose path is that of meta.json and
\* has returned
TraversalDownloaded ==
  /\ Succeeded("downloadAttachments")
  /\ IsMeta(pre.meta)
  /\ TraversalTitle \in Range(result.downloaded)
  /\ IsMeta(meta)

\* how many times a call of the last sync call went to that endpoint
Calls(endpoint) ==
  Cardinality({i \in 1..Len(remoteCalls) : remoteCalls[i] = endpoint})
NoRepeat(seq) == \A i, j \in 1..Len(seq) : seq[i] = seq[j] => i = j

Benign(helper) ==
  CASE helper = "fileExists" -> Bool(FALSE)
    [] helper = "readJsonFile" -> Null
    [] helper = "safeUnlink" -> Undefined
    [] helper = "listFiles" -> Arr(<<>>)

\* C25. Missing-file mapping of the file helpers: when the underlying
\* operation of fileExists, readJsonFile, safeUnlink or listFiles fails, the
\* helper gives false, null, nothing or an empty list exactly when the
\* failure carries the code ENOENT; every other failure, the text of a file
\* that is not JSON included, is thrown on to the caller as it is.
MissingFileMapping ==
  hpc = "settled"
  => LET fs == helperCall.fs
         unparsable == /\ helperCall.helper = "readJsonFile"
                       /\ fs.resolved /\ fs.value = InvalidText
     IN /\ ~fs.resolved
             => IF ~fs.error.falsy /\ fs.error.type = "object"
                   /\ fs.error.hasCode /\ fs.error.code = "ENOENT"
                THEN helperResult = Resolved(Benign(helperCall.helper))
                ELSE helperResult = Rejected(fs.error)
        /\ unparsable => helperResult = Rejected(JsonSyntaxError)
        /\ (fs.resolved /\ ~unparsable) => helperResult.resolved

\* listFiles has met a failure that is not ENOENT and has thrown it on
HelperMetOtherFailure ==
  /\ hpc = "settled"
  /\ helperCall.helper = "listFiles"
  /\ helperCall.fs = Rejected(ErrnoError("EACCES"))
  /\ ~helperResult.resolved

\* the positions of the tokens of a markup that are not whitespace, in order
Solid(s) == SelectSeq([i \in 1..Len(s) |-> i], LAMBDA i : s[i] \notin WS)
\* the whitespace between the k-th of them and the next (k = 0: before the
\* first; k = their number: after the last)
Gap(s, at, k) ==
  SubSeq(s, IF k = 0 THEN 1 ELSE at[k] + 1,
            IF k = Len(at) THEN Len(s) ELSE at[k + 1] - 1)
\* `run` is `long` with some of its tokens left out
RECURSIVE Within(_, _)
Within(run, long) ==
  IF run = <<>> THEN TRUE
  ELSE IF long = <<>> THEN FALSE
  ELSE IF Head(run) = Head(long) THEN Within(Tail(run), Tail(long))
  ELSE Within(run, Tail(long))

\* C26. formatTableXhtml inserts newlines and spaces only, and only between
\* two tags: every token of the input that is not whitespace is in the
\* output, in its place and unchanged; the whitespace of the input is still
\* there; and where whitespace was added, what stands before it and what
\* stands after it are tags, not text.
InsertsBetweenTagsOnly ==
  fpc \in {"formatted", "collapsed"}
  => LET in == Solid(markup)
         out == Solid(formatted)
     IN /\ Len(in) = Len(out)
        /\ \A k \in 1..Len(in) : markup[in[k]] = formatted[out[k]]
        /\ \A k \in 0..Len(in) :
             /\ Within(Gap(markup, in, k), Gap(formatted, out, k))
             /\ Gap(formatted, out, k) # Gap(markup, in, k)
                  => /\ k > 0 => markup[in[k]] \in Tags
                     /\ k < Len(in) => markup[in[k + 1]] \in Tags

\* a table has been expanded
TableExpanded ==
  /\ fpc = "formatted"
  /\ "<table>" \in Range(markup)
  /\ Len(formatted) > Len(markup)

\* C27. unformatTableXhtml removes only whitespace that formatTableXhtml
\* inserted: the whitespace that the markup held before it was expanded is
\* still there, token for token, after the expanded text was collapsed, and
\* nothing else has changed.
KeepsOriginalWhitespace ==
  fpc = "collapsed"
  => LET in == Solid(markup)
         out == Solid(collapsed)
     IN /\ Len(in) = Len(out)
        /\ \A k \in 1..Len(in) : markup[in[k]] = collapsed[out[k]]
        /\ \A k \in 0..Len(in) :
             Within(Gap(markup, in, k), Gap(collapsed, out, k))

\* a markup that held whitespace has been expanded and collapsed, and the
\* whitespace is still there
WhitespaceSurvived ==
  /\ fpc = "collapsed"
  /\ SP \in Range(markup)
  /\ Len(formatted) > Len(markup)
  /\ collapsed = markup

\* the entries of the last uploadAttachments call that it had to send, in
\* metadata order: selected, their file differing from what was recorded;
\* the call stops at the first selected entry whose file is missing
RECURSIVE SendsOf(_, _, _)
SendsOf(entries, files, filter) ==
  IF entries = <<>> THEN <<>>
  ELSE LET e == Head(entries) IN
       IF ~Selected(e.title, filter) THEN SendsOf(Tail(entries), files, filter)
       ELSE IF ~files[e.title].exists THEN <<>>
       ELSE IF computeSha256(files[e.title].content) = e.sha256
       THEN SendsOf(Tail(entries), files, filter)
       ELSE <<e>> \o SendsOf(Tail(entries), files, filter)
ToSend == SendsOf(pre.meta.attachments, pre.attFiles, pre.filter)

\* the remote attachments after the first n of these were uploaded
RECURSIVE AfterUploads(_, _, _)
AfterUploads(atts, entries, n) ==
  IF n = 0 THEN atts
  ELSE AfterUploads(remoteUpload(atts, Head(entries).title,
                                 pre.attFiles[Head(entries).title].content),
                    Tail(entries), n - 1)

\* how many transfers of the last call went through
Transferred(endpoint) ==
  Calls(endpoint)
    - (IF pre.failure.at # 0 /\ remoteCalls # <<>>
          /\ remoteCalls[Len(remoteCalls)] = endpoint THEN 1 ELSE 0)

\* C28. Sequential prefix: when downloadAttachments or uploadAttachments has
\* ended, by returning or by throwing, the attachments it has transferred
\* are the first ones, in listing order (the remote listing for a download,
\* the metadata for an upload), of those it did not skip: their files hold
\* the remote bytes, or the remote holds their files' bytes, and nothing
\* after them has been written or sent; a call that returned has transferred
\* them all and reports them in that order.
SequentialPrefix ==
  /\ Ended("downloadAttachments")
       => LET n == Transferred("downloadAttachment") IN
          /\ n <= Len(ToFetch)
          /\ \A i \in 1..Len(ToFetch) :
               attFiles[ToFetch[i].title] =
                 IF i <= n THEN File(ToFetch[i].data)
                 ELSE pre.attFiles[ToFetch[i].title]
          /\ result.status = "returned"
               => /\ n = Len(ToFetch)
                  /\ result.downloaded = TitleSeq(ToFetch)
          /\ remoteAtts = pre.remoteAtts
  /\ (Ended("uploadAttachments") /\ pre.meta # NoMeta)
       => LET n == Transferred("uploadAttachment") IN
          /\ n <= Len(ToSend)
          /\ remoteAtts = AfterUploads(pre.remoteAtts, ToSend, n)
          /\ result.status = "returned"
               => /\ n = Len(ToSend)
                  /\ result.uploaded = TitleSeq(ToSend)
          /\ attFiles = pre.attFiles

\* the first of two downloads of a call has failed: neither file is on disk
FirstOfTwoFailed ==
  /\ Ended("downloadAttachments")
  /\ result.status = "thrown"
  /\ Len(ToFetch) = 2
  /\ Calls("downloadAttachment") = 1
  /\ \A i \in 1..2 : ~attFiles[ToFetch[i].title].exists

NoopUploadIdempotent ==
  (Ended("uploadBody") /\ pre.failure.at = 0
     /\ pre.meta # NoMeta /\ pre.pageFile.exists
     /\ pre.remotePage.version = pre.meta.version
     /\ computeSha256(pre.pageFile.content) = pre.meta.storageSha256)
  => /\ result.status = "returned"
     /\ ~result.pageUpdated
     /\ remoteCalls = <<"getPage">>
     /\ remotePage = pre.remotePage
     /\ meta = pre.meta

\* an upload of an unchanged body file has returned after an upload that
\* changed the page
NoopAfterUpload ==
  /\ Succeeded("uploadBody")
  /\ ~result.pageUpdated
  /\ pre.prev.op = "uploadBody"
  /\ pre.prev.pageUpdated
  /\ meta = pre.meta

\* C31. Upload of a changed body: an uploadBody that updated the page has
\* called updatePage once, after getPage, and the page now holds the
\* collapsed text of the body file under the title that call fetched, one
\* version above the version it fetched; meta.json records that version and
\* the hash of the formatted text in the body file.  An uploadBody that
\* follows it, nothing having been edited on either side, returns
\* pageUpdated = false and does not call updatePage.
UploadOfChangedBody ==
  /\ (Succeeded("uploadBody") /\ result.pageUpdated)
     => /\ remoteCalls = <<"getPage", "updatePage">>
        /\ remotePage = [version |-> pre.remotePage.version + 1,
                         title |-> pre.remotePage.title,
                         body |-> unformatTableXhtml(pre.pageFile.content)]
        /\ pageFile = pre.pageFile
        /\ meta.version = remotePage.version
        /\ meta.storageSha256 = computeSha256(pre.pageFile.content)
  /\ (Ended("uploadBody") /\ RightAfter("uploadBody") /\ pre.prev.pageUpdated
        /\ pre.failure.at = 0)
     => /\ result.status = "returned"
        /\ ~result.pageUpdated
        /\ remoteCalls = <<"getPage">>

\* an edited table has been uploaded, collapsed
ChangedTableUploaded ==
  /\ Succeeded("uploadBody")
  /\ result.pageUpdated
  /\ pre.pageFile.content = EditT
  /\ remotePage.body # pageFile.content

\* the metadata entries of a title
EntriesOf(title) == {e \in Range(meta.attachments) : e.title = title}

DownloadAfterUploadSkipped ==
  (Ended("downloadBody") /\ RightAfter("uploadBody") /\ pre.prev.pageUpdated
     /\ pre.failure.at = 0)
  => /\ result.status = "returned"
     /\ result.skipped
     /\ pageFile = pre.pageFile

\* a download right after the upload of an edited body has ended
DownloadFollowedUpload ==
  /\ Succeeded("downloadBody")
  /\ RightAfter("uploadBody")
  /\ pre.prev.pageUpdated
  /\ pre.remotePage.body = unformatTableXhtml(pre.pageFile.content)

\* C34. No silent loss of local body edits: when downloadBody has replaced
\* the content of a body file that held an edit of the user which no upload
\* had sent, the call has ended with an error.
NoSilentLossOfLocalEdits ==
  (Ended("downloadBody") /\ pre.localEdit /\ pre.pageFile.exists
     /\ pageFile # pre.pageFile)
  => result.status = "thrown"

\* a download has found an edited body file and has left it as it was
EditedFileKept ==
  /\ Succeeded("downloadBody")
  /\ pre.localEdit
  /\ pre.pageFile.exists
  /\ pageFile = pre.pageFile
  /\ result.skipped

\* the titles whose attachment the call has changed on the remote
SentTitles ==
  {r.title : r \in {x \in Range(remoteAtts) : x \notin Range(pre.remoteAtts)}}

\* the titles the same call uploads when it is made again now, no request
\* failing
RetryUploads ==
  Range(uploadAttachments(meta, attFiles, remoteAtts, pre.filter, 0, ReplyOk)
          .result.uploaded)

\* C35. Retry safety of uploadAttachments: when an uploadAttachments call
\* has failed after uploading some attachments, the same call made again,
\* the local files being what they were, uploads none of those attachments
\* a second time.
UploadRetrySafe ==
  (Ended("uploadAttachments") /\ result.status = "thrown" /\ meta # NoMeta)
  => SentTitles \cap RetryUploads = {}

\* an upload has failed after it had sent an attachment
UploadFailedPartway ==
  /\ Ended("uploadAttachments")
  /\ result.status = "thrown"
  /\ SentTitles # {}

\* the titles whose file the call has written
WrittenTitles == {t \in AttTitles : attFiles[t] # pre.attFiles[t]}

\* the titles an uploadAttachments with that filter sends when it is called
\* now, no request failing
FollowingUploadSends(filter) ==
  LET out == uploadAttachments(meta, attFiles, remoteAtts, filter, 0, ReplyOk)
  IN {r.title : r \in {x \in Range(out.remoteAtts) : x \notin Range(remoteAtts)}}

\* C36. Files left by a failed download are not mistaken for local edits:
\* when downloadAttachments has failed after writing attachment files, an
\* uploadAttachments that follows, the user having edited nothing, sends
\* none of those files to the remote.
DownloadLeftoversNotUploaded ==
  (Ended("downloadAttachments") /\ result.status = "thrown")
  => \A filter \in Filters : FollowingUploadSends(filter) \cap WrittenTitles = {}

\* a download has failed after it had written an attachment file
DownloadFailedPartway ==
  /\ Ended("downloadAttachments")
  /\ result.status = "thrown"
  /\ WrittenTitles # {}

\* C37. A successful downloadBody leaves the body file present: when the
\* call has returned, page.xhtml exists, whether or not it existed when the
\* call started and whatever meta.json recorded.
BodyFilePresentAfterDownload ==
  Succeeded("downloadBody") => pageFile.exists

\* a download that found meta.json but no body file has written the file
MissingBodyFileRecreated ==
  /\ Succeeded("downloadBody")
  /\ pre.meta # NoMeta
  /\ ~pre.pageFile.exists
  /\ pageFile.exists

\* the titles a call has gone through
Processed ==
  Range(result.downloaded) \cup Range(result.uploaded) \cup Range(result.skippedAtts)

\* C38. Filter normalisation: a downloadAttachments or uploadAttachments
\* given a filter with an empty title list ends as the same call without a
\* filter ends, in what it leaves on disk and on the remote, in its remote
\* calls, its logs and its result (for download the garbage collection
\* included).  A call given the titles " a.png " and "c.png", no request
\* failing, goes through a.png when the remote lists it (download) or
\* meta.json tracks it (upload) and through nothing else, and returns: the
\* title is compared trimmed, and c.png, which matches nothing, raises no
\* error.
FilterNormalised ==
  /\ (Ended("downloadAttachments") /\ pre.filter = Filter(<<>>))
     => \E out \in {downloadAttachments(pre.meta, pre.attFiles, pre.remotePage,
                                        pre.remoteAtts, NoFilter, pre.failure.at,
                                        pre.failure.reply)} :
          /\ meta = out.meta
          /\ attFiles = out.attFiles
          /\ remoteCalls = out.calls
          /\ logs = out.logs
          /\ result = callerGets(out.result, out.logs)
  /\ (Ended("uploadAttachments") /\ pre.filter = Filter(<<>>))
     => \E out \in {uploadAttachments(pre.meta, pre.attFiles, pre.remoteAtts,
                                      NoFilter, pre.failure.at, pre.failure.reply)} :
          /\ meta = out.meta
          /\ remoteAtts = out.remoteAtts
          /\ remoteCalls = out.calls
          /\ logs = out.logs
          /\ result = callerGets(out.result, out.logs)
  /\ (Ended("downloadAttachments") /\ pre.filter = Filter(<<" a.png ", "c.png">>)
        /\ pre.failure.at = 0)
     => /\ result.status = "returned"
        /\ Processed = {"a.png"} \cap Titles(pre.remoteAtts)
        /\ result.removed = <<>>
  /\ (Ended("uploadAttachments") /\ pre.filter = Filter(<<" a.png ", "c.png">>)
        /\ pre.failure.at = 0 /\ pre.meta # NoMeta /\ pre.attFiles["a.png"].exists)
     => /\ result.status = "returned"
        /\ Processed = {"a.png"} \cap Titles(pre.meta.attachments)

\* a download given " a.png " and "c.png" has fetched a.png and nothing
\* else, the remote listing b.png too
FilteredByTrimmedTitle ==
  /\ Succeeded("downloadAttachments")
  /\ pre.filter = Filter(<<" a.png ", "c.png">>)
  /\ result.downloaded = <<"a.png">>
  /\ "b.png" \in Titles(pre.remoteAtts)

\* C39. Invalid page reference: a sync call given a URL without a
\* /pages/<digits> segment followed by "/" or the end of the string has
\* thrown InvalidUrlError, and it has created no directory, written no log,
\* left meta.json and the files of the cache as they were and made no remote
\* call; a call given a URL with such a segment does not throw that error.
InvalidPageReference ==
  (pc = "idle" /\ pre.exists)
  => IF pageUrl \in InvalidUrls
     THEN /\ pre.op \in {"downloadBody", "uploadBody", "downloadAttachments",
                         "uploadAttachments"}
          /\ result = Thrown(pre.op, InvalidUrlError)
          /\ cacheDirs = pre.cacheDirs
          /\ logs = <<>>
          /\ remoteCalls = <<>>
          /\ meta = pre.meta
          /\ pageFile = pre.pageFile
          /\ attFiles = pre.attFiles
          /\ remotePage = pre.remotePage
          /\ remoteAtts = pre.remoteAtts
     ELSE result.error # InvalidUrlError

\* a call given the viewpage URL of the page has been refused, the cache
\* holding the page from earlier calls
ViewPageUrlRefused ==
  /\ pageUrl = Wiki \o ViewPage
  /\ result = Thrown("uploadBody", InvalidUrlError)
  /\ pre.cacheDirs
  /\ pre.meta # NoMeta
  /\ pre.pageFile.exists

====
